---- MODULE Spec2Model ----
(***************************************************************************)
(* Model of the pure-Python Hausdorff kernels and spherical functions      *)
(* (geodist/pure.py), of the vectorized dispatch layer                     *)
(* (geodist/vectorized.py), of the constructors of Point, Point3D and      *)
(* BoundingBox (geodist/geometry.py), of loads_geojson (geodist/io.py), of *)
(* the version bump script (.github/scripts/bump_version.py) and of the    *)
(* kernel's polyline densification and directed Chamfer distance.          *)
(*                                                                         *)
(* Units.  Coordinates are integers counting HALF DEGREES, so Point(0, 1)  *)
(* is <<0, 2>> and BoundingBox(-1, 1, 0.5, 1.5) is <<-2, 2, 1, 3>>.        *)
(* Distances are integers counting MILLIMETRES: the value of               *)
(* _haversine_distance rounded to 1 mm.  On the point universe used here   *)
(* the rounding keeps every <, = and > between two distances that the      *)
(* floating point values have.                                             *)
(* Indices stored in witnesses are Python indices (0-based); TLA+          *)
(* sequences are 1-based, so element i of a Python list is s[i + 1].       *)
(***************************************************************************)
EXTENDS Integers, Sequences, FiniteSets, TLC

VARIABLES
    a,              \* Hausdorff: first point list given by the caller
    b,              \* Hausdorff: second point list given by the caller
    bounding_box,   \* Hausdorff: the BoundingBox given to the clipped variants
    call,           \* Hausdorff: name of the public function that ran ("" before)
    result,         \* Hausdorff: what the call returned or raised
    left,           \* vectorized: first argument of the *_many call
    right,          \* vectorized: second argument of the *_many call
    np,             \* vectorized: state of the optional numpy module (_np)
    fault,          \* vectorized: which pairs make the kernel raise, and what
    vcall,          \* vectorized: name and crs of the *_many call that ran
    vresult,        \* vectorized: what the *_many call returned or raised
    calls,          \* vectorized: log of kernel invocations, in order
    paths,          \* vectorized: the execution paths the call entered, in order
    gcall,          \* geometry: the constructor that ran and its arguments
    gresult,        \* geometry: the object it left or the error it raised
    handles,        \* geometry: the kernel handles created so far, in order
    roundtrip,      \* geometry: what rebuilding the Point from its tuple gave
    geodesics,      \* geodesic: the calls made so far and what each returned
    polyline,       \* polyline: the vertices of the LineString given to densify
    options,        \* polyline: the DensificationOptions given to densify
    densified,      \* polyline: what densify returned or raised
    reoptions,      \* polyline: the options of the second densification
    redensified,    \* polyline: what densifying the returned samples gave
    samples_a,      \* chamfer: the samples of the first polyline set
    samples_b,      \* chamfer: the samples of the second polyline set
    chamfer,        \* chamfer: what the directed Chamfer call returned or raised
    geojson,        \* io: the first argument of loads_geojson
    crs_arg,        \* io: the crs keyword of loads_geojson
    kernel,         \* io: state of the compiled loads_geojson kernel
    loaded,         \* io: what loads_geojson returned or raised
    kernel_log,     \* io: lookups and calls of the kernel, in order
    manifests,      \* bump: the text of the two manifests, as lists of lines
    version_arg,    \* bump: the version string given to main
    bumped          \* bump: main's return code and the manifests it found

hvars == <<a, b, bounding_box, call, result>>
vvars == <<left, right, np, fault, vcall, vresult, calls, paths>>
gvars == <<gcall, gresult, handles, roundtrip>>
dvars == <<geodesics>>
pvars == <<polyline, options, densified, reoptions, redensified>>
cvars == <<samples_a, samples_b, chamfer>>
ivars == <<geojson, crs_arg, kernel, loaded, kernel_log>>
bvars == <<manifests, version_arg, bumped>>
vars == <<a, b, bounding_box, call, result, left, right, np, fault, vcall, vresult, calls, paths,
          gcall, gresult, handles, roundtrip, geodesics,
          polyline, options, densified, reoptions, redensified,
          samples_a, samples_b, chamfer,
          geojson, crs_arg, kernel, loaded, kernel_log,
          manifests, version_arg, bumped>>

-----------------------------------------------------------------------------
(* Bounds *)

MaxLen == 2         \* longest point list handed to a Hausdorff function
MaxVecLen == 2      \* longest sequence handed to a *_many function
MaxCalls == 2       \* most calls made to the spherical distance and bearing functions
MaxGeom == 1        \* geometry handles are 0..MaxGeom

-----------------------------------------------------------------------------
(* Generic helpers *)

SeqsUpTo(S, n) == UNION {[1..k -> S] : k \in 0..n}

-----------------------------------------------------------------------------
(* Outcomes of a call: a returned value or a raised exception.  Both have  *)
(* the same record shape so that any two outcomes can be compared.         *)

NoWitness == [distance_m |-> 0, origin_index |-> 0, candidate_index |-> 0]

HausdorffDirectedWitness(distance_m, origin_index, candidate_index) ==
    [distance_m |-> distance_m, origin_index |-> origin_index, candidate_index |-> candidate_index]

HausdorffWitness(distance_m, a_to_b, b_to_a) ==
    [distance_m |-> distance_m, a_to_b |-> a_to_b, b_to_a |-> b_to_a]

NoSymmetric == HausdorffWitness(0, NoWitness, NoWitness)

\* status "ok": `directed` (directed calls) or `symmetric` (symmetric calls) is
\* the returned value.  status "raise": `error` names the exception class and
\* `message` its text; nothing is returned.
Returned(directed, symmetric) ==
    [status |-> "ok", error |-> "", message |-> "", directed |-> directed, symmetric |-> symmetric]

Raised(error, message) ==
    [status |-> "raise", error |-> error, message |-> message, directed |-> NoWitness, symmetric |-> NoSymmetric]

NotCalled ==
    [status |-> "none", error |-> "", message |-> "", directed |-> NoWitness, symmetric |-> NoSymmetric]

-----------------------------------------------------------------------------
(* Geometry values the callers construct *)

\* The points used as inputs: Point(0,0), Point(0,1), Point(1,1), Point(0,2)
\* in degrees, written in half degrees.
Points == {<<0, 0>>, <<0, 2>>, <<2, 2>>, <<0, 4>>}

\* BoundingBox.__init__ after the four coordinates were coerced: the box exists
\* only when neither range is inverted.  A box is the tuple to_tuple() returns,
\* <<min_lat, max_lat, min_lon, max_lon>>.
BoundingBoxAccepted(min_latitude, max_latitude, min_longitude, max_longitude) ==
    /\ ~(min_latitude > max_latitude)
    /\ ~(min_longitude > max_longitude)

\* Argument tuples callers try; the inverted ones never become a BoundingBox.
BoxArguments ==
    { <<-2, 2, 1, 3>>,      \* BoundingBox(-1, 1, 0.5, 1.5): Point(0,1), Point(1,1)
      <<0, 2, 0, 4>>,       \* the tightest box around all four points
      <<-2, 0, -2, 0>>,     \* only Point(0,0), on its corner
      <<-4, -2, -4, -2>>,   \* no point at all
      <<2, -2, 0, 0>>,      \* inverted latitude range
      <<-2, 2, 4, 0>> }     \* inverted longitude range

Boxes == {bb \in BoxArguments : BoundingBoxAccepted(bb[1], bb[2], bb[3], bb[4])}

-----------------------------------------------------------------------------
(* geodist/pure.py *)

\* math.inf and -math.inf.  Every distance of the universe lies between 0 and
\* 222390160 mm, so these two compare with distances as the floats do.
PosInf == 2147483647
NegInf == -1

\* _point_from_any on a (lat, lon) tuple: the tuple of its two coordinates.
PointFromAny(value) == <<value[1], value[2]>>

\* _haversine_distance, in millimetres, tabulated on the point universe from
\* the formula with EARTH_RADIUS_METERS = 6371008.8 (arguments in half degrees).
HaversineDistance(lat1, lon1, lat2, lon2) ==
    CASE lat1 = 0 /\ lon1 = 0 /\ lat2 = 0 /\ lon2 = 0 -> 0
      [] lat1 = 0 /\ lon1 = 0 /\ lat2 = 0 /\ lon2 = 2 -> 111195080
      [] lat1 = 0 /\ lon1 = 0 /\ lat2 = 2 /\ lon2 = 2 -> 157249598
      [] lat1 = 0 /\ lon1 = 0 /\ lat2 = 0 /\ lon2 = 4 -> 222390160
      [] lat1 = 0 /\ lon1 = 2 /\ lat2 = 0 /\ lon2 = 0 -> 111195080
      [] lat1 = 0 /\ lon1 = 2 /\ lat2 = 0 /\ lon2 = 2 -> 0
      [] lat1 = 0 /\ lon1 = 2 /\ lat2 = 2 /\ lon2 = 2 -> 111195080
      [] lat1 = 0 /\ lon1 = 2 /\ lat2 = 0 /\ lon2 = 4 -> 111195080
      [] lat1 = 2 /\ lon1 = 2 /\ lat2 = 0 /\ lon2 = 0 -> 157249598
      [] lat1 = 2 /\ lon1 = 2 /\ lat2 = 0 /\ lon2 = 2 -> 111195080
      [] lat1 = 2 /\ lon1 = 2 /\ lat2 = 2 /\ lon2 = 2 -> 0
      [] lat1 = 2 /\ lon1 = 2 /\ lat2 = 0 /\ lon2 = 4 -> 157249598
      [] lat1 = 0 /\ lon1 = 4 /\ lat2 = 0 /\ lon2 = 0 -> 222390160
      [] lat1 = 0 /\ lon1 = 4 /\ lat2 = 0 /\ lon2 = 2 -> 111195080
      [] lat1 = 0 /\ lon1 = 4 /\ lat2 = 2 /\ lon2 = 2 -> 157249598
      [] lat1 = 0 /\ lon1 = 4 /\ lat2 = 0 /\ lon2 = 4 -> 0

\* Lines 149-151: the inner loop keeps a candidate only when it is strictly
\* nearer than the nearest one seen so far.
NearestStep_always(near, distance, candidate_index) ==
    [nearest |-> distance, nearest_index |-> candidate_index]

NearestStep(near, distance, candidate_index) ==
    IF distance < near.nearest
    THEN [nearest |-> distance, nearest_index |-> candidate_index]
    ELSE near

\* Lines 146-151: the scan of b for one origin, from Python index
\* candidate_index on.
RECURSIVE NearestScan(_, _, _, _)
NearestScan(origin, points_b, candidate_index, near) ==
    IF candidate_index >= Len(points_b)
    THEN near
    ELSE LET candidate == PointFromAny(points_b[candidate_index + 1])
             distance == HaversineDistance(origin[1], origin[2], candidate[1], candidate[2])
         IN  NearestScan(origin, points_b, candidate_index + 1,
                         NearestStep(near, distance, candidate_index))

\* Lines 152-155: the outer loop replaces the best pair only when this
\* origin's nearest distance is strictly greater than the best so far.
BestStep_orEqual(best, near, origin_index) ==
    IF near.nearest >= best.best_distance
    THEN [best_distance |-> near.nearest, best_origin |-> origin_index,
          best_candidate |-> near.nearest_index]
    ELSE best

BestStep_always(best, near, origin_index) ==
    [best_distance |-> near.nearest, best_origin |-> origin_index,
     best_candidate |-> near.nearest_index]

BestStep_staleCandidate(best, near, origin_index) ==
    IF near.nearest > best.best_distance
    THEN [best_distance |-> near.nearest, best_origin |-> origin_index,
          best_candidate |-> best.best_candidate]
    ELSE best

BestStep(best, near, origin_index) ==
    IF near.nearest > best.best_distance
    THEN [best_distance |-> near.nearest, best_origin |-> origin_index,
          best_candidate |-> near.nearest_index]
    ELSE best

\* Lines 142-155: the scan of a, from Python index origin_index on.
RECURSIVE BestScan(_, _, _, _)
BestScan(points_a, points_b, origin_index, best) ==
    IF origin_index >= Len(points_a)
    THEN best
    ELSE LET origin == PointFromAny(points_a[origin_index + 1])
             near == NearestScan(origin, points_b, 0,
                                 [nearest |-> PosInf, nearest_index |-> -1])
         IN  BestScan(points_a, points_b, origin_index + 1,
                      BestStep(best, near, origin_index))

\* _directed_hausdorff(a, b, allow_empty=allow_empty)
DirectedHausdorff(points_a, points_b, allow_empty) ==
    IF Len(points_a) = 0
    THEN Raised("InvalidGeometryError", "set a must contain at least one point")
    ELSE IF Len(points_b) = 0
    THEN IF allow_empty
         THEN Returned(HausdorffDirectedWitness(0, -1, -1), NoSymmetric)
         ELSE Raised("InvalidGeometryError", "set b must contain at least one point")
    ELSE LET best == BestScan(points_a, points_b, 0,
                              [best_distance |-> NegInf, best_origin |-> -1,
                               best_candidate |-> -1])
         IN  Returned(HausdorffDirectedWitness(best.best_distance, best.best_origin,
                                               best.best_candidate), NoSymmetric)

\* hausdorff_directed_naive(a, b): allow_empty keeps its default, False.
HausdorffDirectedNaive(points_a, points_b) ==
    DirectedHausdorff(points_a, points_b, FALSE)

\* Lines 177 and 212: the symmetric distance picked from the two directed ones.
SymmetricDistance_smaller(forward, reverse) ==
    IF forward.distance_m <= reverse.distance_m THEN forward.distance_m ELSE reverse.distance_m

SymmetricDistance(forward, reverse) ==
    IF forward.distance_m >= reverse.distance_m THEN forward.distance_m ELSE reverse.distance_m

\* hausdorff_naive(a, b): forward, then reverse, then the pair of witnesses.
\* An exception raised by either directed call leaves the function at once.
HausdorffNaive(points_a, points_b) ==
    LET forward == DirectedHausdorff(points_a, points_b, FALSE)
        reverse == DirectedHausdorff(points_b, points_a, FALSE)
    IN  IF forward.status = "raise" THEN forward
        ELSE IF reverse.status = "raise" THEN reverse
        ELSE Returned(NoWitness,
                      HausdorffWitness(SymmetricDistance(forward.directed, reverse.directed),
                                       forward.directed, reverse.directed))

\* Line 186: the filter of _clip_points, both ranges inclusive.
InsideBox_exclusive(lat, lon, box) ==
    box[1] < lat /\ lat < box[2] /\ box[3] < lon /\ lon < box[4]

InsideBox(lat, lon, box) ==
    box[1] <= lat /\ lat <= box[2] /\ box[3] <= lon /\ lon <= box[4]

\* Lines 183-187: the list comprehension of _clip_points, in input order.
RECURSIVE ClippedList_reversed(_, _)
ClippedList_reversed(points, box) ==
    IF points = <<>>
    THEN <<>>
    ELSE LET point == PointFromAny(Head(points))
             rest == ClippedList_reversed(Tail(points), box)
         IN  IF InsideBox(point[1], point[2], box) THEN rest \o <<point>> ELSE rest

RECURSIVE ClippedList(_, _)
ClippedList(points, box) ==
    IF points = <<>>
    THEN <<>>
    ELSE LET point == PointFromAny(Head(points))
             rest == ClippedList(Tail(points), box)
         IN  IF InsideBox(point[1], point[2], box) THEN <<point>> \o rest ELSE rest

\* _clip_points(points, bounding_box): the kept (lat, lon) tuples, or the
\* exception of line 189 when none is kept.
ClipPoints(points, box) ==
    LET clipped == ClippedList(points, box)
    IN  IF clipped = <<>>
        THEN [status |-> "raise", error |-> "InvalidGeometryError",
              message |-> "all points were clipped by the bounding box", clipped |-> <<>>]
        ELSE [status |-> "ok", error |-> "", message |-> "", clipped |-> clipped]

\* hausdorff_directed_clipped_naive(a, b, bounding_box)
HausdorffDirectedClippedNaive(points_a, points_b, box) ==
    LET clipped_a == ClipPoints(points_a, box)
        clipped_b == ClipPoints(points_b, box)
    IN  IF clipped_a.status = "raise" THEN Raised(clipped_a.error, clipped_a.message)
        ELSE IF clipped_b.status = "raise" THEN Raised(clipped_b.error, clipped_b.message)
        ELSE DirectedHausdorff(clipped_a.clipped, clipped_b.clipped, FALSE)

\* hausdorff_clipped_naive(a, b, bounding_box)
HausdorffClippedNaive(points_a, points_b, box) ==
    LET clipped_a == ClipPoints(points_a, box)
        clipped_b == ClipPoints(points_b, box)
    IN  IF clipped_a.status = "raise" THEN Raised(clipped_a.error, clipped_a.message)
        ELSE IF clipped_b.status = "raise" THEN Raised(clipped_b.error, clipped_b.message)
        ELSE LET forward == DirectedHausdorff(clipped_a.clipped, clipped_b.clipped, FALSE)
                 reverse == DirectedHausdorff(clipped_b.clipped, clipped_a.clipped, FALSE)
             IN  IF forward.status = "raise" THEN forward
                 ELSE IF reverse.status = "raise" THEN reverse
                 ELSE Returned(NoWitness,
                               HausdorffWitness(SymmetricDistance(forward.directed, reverse.directed),
                                                forward.directed, reverse.directed))

-----------------------------------------------------------------------------
(* The Hausdorff functions as a state machine: the caller holds two point   *)
(* lists and a bounding box and makes one call.                             *)

NoVCall == [name |-> "", crs |-> "None"]
NoFault == [error |-> "", at |-> 0, times |-> "always"]
NoVResult == [status |-> "none", error |-> "", value |-> <<>>]
NoArgument == [kind |-> "list", items |-> <<>>]

NoGCall == [name |-> "", args |-> <<>>]
NoGResult == [status |-> "none", error |-> "", field |-> "", values |-> <<>>,
              handle |-> [type |-> "", fields |-> <<>>]]
NoRoundTrip == [status |-> "none", handle |-> [type |-> "", fields |-> <<>>],
                equal |-> FALSE, to_tuple |-> <<>>, iterated |-> <<>>]

GeometryIdle ==
    /\ gcall = NoGCall
    /\ gresult = NoGResult
    /\ handles = <<>>
    /\ roundtrip = NoRoundTrip

GeodesicIdle ==
    geodesics = <<>>

\* No densification was asked for.
NoOptions == [status |-> "none", error |-> "", max_segment_length_m |-> 0,
              max_segment_angle_deg |-> 0, sample_cap |-> 0]
NotDensified == [status |-> "none", error |-> "", samples |-> <<>>]

PolylineIdle ==
    /\ polyline = <<>>
    /\ options = NoOptions
    /\ densified = NotDensified
    /\ reoptions = NoOptions
    /\ redensified = NotDensified

\* No Chamfer call was made.
NoChamfer == [status |-> "none", error |-> "", reduction |-> "", distance_m |-> 0,
              has_witness |-> FALSE, witness |-> NoWitness]

ChamferIdle ==
    /\ samples_a = <<>>
    /\ samples_b = <<>>
    /\ chamfer = NoChamfer

\* Python's None, and loads_geojson before it is called.
PyNone == [kind |-> "None", value |-> 0]
NoGeoJSON == [kind |-> "", has_crs |-> FALSE, crs |-> PyNone]
NotLoaded == [status |-> "none", error |-> "", crs |-> PyNone]

IoIdle ==
    /\ geojson = NoGeoJSON
    /\ crs_arg = PyNone
    /\ kernel = "available"
    /\ loaded = NotLoaded
    /\ kernel_log = <<>>

\* bump_version.main before it is called.
NoManifests == [cargo |-> <<>>, pyproject |-> <<>>]
NotBumped == [code |-> -1, before |-> NoManifests]

BumpIdle ==
    /\ manifests = NoManifests
    /\ version_arg = <<>>
    /\ bumped = NotBumped

VectorizedIdle ==
    /\ left = NoArgument
    /\ right = NoArgument
    /\ np = "absent"
    /\ fault = NoFault
    /\ vcall = NoVCall
    /\ vresult = NoVResult
    /\ calls = <<>>
    /\ paths = <<>>

Init ==
    /\ a \in SeqsUpTo(Points, MaxLen)
    /\ b \in SeqsUpTo(Points, MaxLen)
    /\ bounding_box \in Boxes
    /\ call = ""
    /\ result = NotCalled
    /\ VectorizedIdle
    /\ GeometryIdle
    /\ PolylineIdle
    /\ ChamferIdle
    /\ IoIdle
    /\ BumpIdle
    /\ GeodesicIdle

CallHausdorffDirectedNaive ==
    /\ call = ""
    /\ call' = "hausdorff_directed_naive"
    /\ result' = HausdorffDirectedNaive(a, b)
    /\ UNCHANGED <<a, b, bounding_box>>
    /\ UNCHANGED <<vvars, gvars, dvars, pvars, cvars, ivars, bvars>>

CallHausdorffNaive ==
    /\ call = ""
    /\ call' = "hausdorff_naive"
    /\ result' = HausdorffNaive(a, b)
    /\ UNCHANGED <<a, b, bounding_box>>
    /\ UNCHANGED <<vvars, gvars, dvars, pvars, cvars, ivars, bvars>>

CallHausdorffDirectedClippedNaive ==
    /\ call = ""
    /\ call' = "hausdorff_directed_clipped_naive"
    /\ result' = HausdorffDirectedClippedNaive(a, b, bounding_box)
    /\ UNCHANGED <<a, b, bounding_box>>
    /\ UNCHANGED <<vvars, gvars, dvars, pvars, cvars, ivars, bvars>>

CallHausdorffClippedNaive ==
    /\ call = ""
    /\ call' = "hausdorff_clipped_naive"
    /\ result' = HausdorffClippedNaive(a, b, bounding_box)
    /\ UNCHANGED <<a, b, bounding_box>>
    /\ UNCHANGED <<vvars, gvars, dvars, pvars, cvars, ivars, bvars>>

Next ==
    \/ CallHausdorffDirectedNaive
    \/ CallHausdorffNaive
    \/ CallHausdorffDirectedClippedNaive
    \/ CallHausdorffClippedNaive

Spec == Init /\ [][Next]_vars

-----------------------------------------------------------------------------
(* geodist/vectorized.py *)

\* Geometry objects are identified by their handle, 0..MaxGeom.  NotGeometry
\* stands for any element that is not a Geometry instance, such as object().
Geoms == 0..MaxGeom
NotGeometry == -1
Elements == Geoms \cup {NotGeometry}

\* What a caller may pass as `left` or `right`: a list (a Sequence), a str (a
\* Sequence the validation refuses by name) or an iterator (not a Sequence).
Arguments ==
    [kind : {"list"}, items : SeqsUpTo(Elements, MaxVecLen)]
        \cup [kind : {"str", "iterator"}, items : {<<>>}]

\* Values of the crs keyword of distance_many.
CRSValues == {"None", "EPSG:4326"}

\* The exception classes caught by `except GeodistError`: GeodistError and its
\* subclasses.
GeodistErrors == {"GeodistError", "VectorizationError"}

\* The kernel may raise for a pair whose left geometry is fault.at: a domain
\* error (GeodistError) or an exception of another kind (RuntimeError), either
\* every time it is called on that geometry ("always") or only the first time
\* within the *_many call ("once", a failure that does not recur).
Faults ==
    {NoFault} \cup [error : {"GeodistError", "RuntimeError"}, at : Geoms,
                    times : {"always", "once"}]

\* States of the optional dependency: "absent" is _np = None; "present" is a
\* working numpy; "failing" is a numpy whose asarray raises an exception that
\* is not a GeodistError before the kernel is called for any pair.
NumpyStates == {"absent", "present", "failing"}

\* The type of the value each underlying operation returns.
ResultType(func) == IF func = "distance" THEN "float" ELSE "bool"

\* func(a, b, **arguments) for one pair: what it raises or the value it
\* returns.  The value is kept as the term (func, a, b, crs) with its type;
\* arguments is the crs of {"crs": crs}, or "" when no keyword is passed;
\* earlier is the log of the calls func has received before this one.
Apply(func, ga, gb, arguments, earlier) ==
    IF /\ fault.error # ""
       /\ ga = fault.at
       /\ fault.times = "once" => \A k \in 1..Len(earlier) : earlier[k][2] # ga
    THEN [status |-> "raise", error |-> fault.error,
          value |-> [type |-> "", func |-> func, left |-> ga, right |-> gb, crs |-> arguments]]
    ELSE [status |-> "ok", error |-> "",
          value |-> [type |-> ResultType(func), func |-> func, left |-> ga, right |-> gb,
                     crs |-> arguments]]

\* One pass over zip(left, right) from Python index i on, calling func once
\* per pair in index order and stopping at the first call that raises.  acc
\* holds the values so far and the log of the calls made.
RECURSIVE ApplyPairs(_, _, _, _, _, _)
ApplyPairs(func, left_items, right_items, arguments, i, acc) ==
    IF i >= Len(left_items) \/ i >= Len(right_items)
    THEN acc
    ELSE LET outcome == Apply(func, left_items[i + 1], right_items[i + 1], arguments,
                              acc.calls)
             logged == Append(acc.calls, <<func, left_items[i + 1], right_items[i + 1], arguments>>)
         IN  IF outcome.status = "raise"
             THEN [status |-> "raise", error |-> outcome.error, value |-> <<>>, calls |-> logged]
             ELSE ApplyPairs(func, left_items, right_items, arguments, i + 1,
                             [status |-> "ok", error |-> "",
                              value |-> Append(acc.value, outcome.value), calls |-> logged])

NoPairs == [status |-> "ok", error |-> "", value |-> <<>>, calls |-> <<>>]

\* _ensure_lengths_match(left, right)
EnsureLengthsMatch_never(left_items, right_items) ==
    [status |-> "ok", error |-> ""]

EnsureLengthsMatch(left_items, right_items) ==
    IF Len(left_items) # Len(right_items)
    THEN [status |-> "raise", error |-> "VectorizationError"]
    ELSE [status |-> "ok", error |-> ""]

\* _validate_geometry_sequence(values, label=...): the list of the geometries,
\* or VectorizationError for a str, a non-sequence or a non-Geometry element.
ValidateGeometrySequence(values) ==
    IF values.kind = "str" \/ values.kind # "list"
    THEN [status |-> "raise", error |-> "VectorizationError", geometries |-> <<>>]
    ELSE IF \E index \in 1..Len(values.items) : values.items[index] \notin Geoms
    THEN [status |-> "raise", error |-> "VectorizationError", geometries |-> <<>>]
    ELSE [status |-> "ok", error |-> "", geometries |-> values.items]

\* _python_apply(func, left, right, kwargs=kwargs): the list comprehension; an
\* exception of func leaves it as raised.  earlier is the log of the calls func
\* received before the comprehension starts; the log returned continues it.
PythonApply_dropsKwargs(func, left_items, right_items, kwargs, earlier) ==
    ApplyPairs(func, left_items, right_items, "", 0, [NoPairs EXCEPT !.calls = earlier])

PythonApply(func, left_items, right_items, kwargs, earlier) ==
    ApplyPairs(func, left_items, right_items, kwargs, 0, [NoPairs EXCEPT !.calls = earlier])

\* The conversion numpy applies to each output for otypes=[otype], followed by
\* tolist(): every element comes back as a Python value of that type.
CastAll(values, otype) ==
    [k \in 1..Len(values) |-> [values[k] EXCEPT !.type = otype]]

\* _numpy_apply(func, left, right, kwargs=kwargs, otypes=otypes).  status
\* "none" is the return value None; "raise" is the GeodistError re-raised by
\* line 67; any other exception is swallowed by line 69 and gives None.
NumpyApply_wrapsDomainError(func, left_items, right_items, kwargs, otype) ==
    IF np = "absent"
    THEN [status |-> "none", error |-> "", value |-> <<>>, calls |-> <<>>]
    ELSE IF np = "failing"
    THEN [status |-> "none", error |-> "", value |-> <<>>, calls |-> <<>>]
    ELSE IF Len(left_items) # Len(right_items)
    THEN [status |-> "raise", error |-> "VectorizationError", value |-> <<>>, calls |-> <<>>]
    ELSE LET vectorized == ApplyPairs(func, left_items, right_items,
                                      kwargs, 0, NoPairs)
         IN  IF vectorized.status = "raise"
             THEN IF vectorized.error \in GeodistErrors
                  THEN [vectorized EXCEPT !.error = "VectorizationError"]
                  ELSE [status |-> "none", error |-> "", value |-> <<>>,
                        calls |-> vectorized.calls]
             ELSE [vectorized EXCEPT !.value = CastAll(vectorized.value, otype)]

NumpyApply_swallowsDomainError(func, left_items, right_items, kwargs, otype) ==
    IF np = "absent"
    THEN [status |-> "none", error |-> "", value |-> <<>>, calls |-> <<>>]
    ELSE IF np = "failing"
    THEN [status |-> "none", error |-> "", value |-> <<>>, calls |-> <<>>]
    ELSE IF Len(left_items) # Len(right_items)
    THEN [status |-> "raise", error |-> "VectorizationError", value |-> <<>>, calls |-> <<>>]
    ELSE LET vectorized == ApplyPairs(func, left_items, right_items,
                                      kwargs, 0, NoPairs)
         IN  IF vectorized.status = "raise"
             THEN [status |-> "none", error |-> "", value |-> <<>>,
                   calls |-> vectorized.calls]
             ELSE [vectorized EXCEPT !.value = CastAll(vectorized.value, otype)]

NumpyApply_returnsPartial(func, left_items, right_items, kwargs, otype) ==
    IF np = "absent"
    THEN [status |-> "none", error |-> "", value |-> <<>>, calls |-> <<>>]
    ELSE IF np = "failing"
    THEN [status |-> "none", error |-> "", value |-> <<>>, calls |-> <<>>]
    ELSE IF Len(left_items) # Len(right_items)
    THEN [status |-> "raise", error |-> "VectorizationError", value |-> <<>>, calls |-> <<>>]
    ELSE LET vectorized == ApplyPairs(func, left_items, right_items,
                                      kwargs, 0, NoPairs)
         IN  IF vectorized.status = "raise"
             THEN IF vectorized.error \in GeodistErrors
                  THEN vectorized
                  ELSE [status |-> "ok", error |-> "", value |-> <<>>,
                        calls |-> vectorized.calls]
             ELSE [vectorized EXCEPT !.value = CastAll(vectorized.value, otype)]

NumpyApply(func, left_items, right_items, kwargs, otype) ==
    IF np = "absent"
    THEN [status |-> "none", error |-> "", value |-> <<>>, calls |-> <<>>]
    ELSE IF np = "failing"
    THEN [status |-> "none", error |-> "", value |-> <<>>, calls |-> <<>>]
    ELSE IF Len(left_items) # Len(right_items)
    THEN [status |-> "raise", error |-> "VectorizationError", value |-> <<>>, calls |-> <<>>]
    ELSE LET vectorized == ApplyPairs(func, left_items, right_items,
                                      kwargs, 0, NoPairs)
         IN  IF vectorized.status = "raise"
             THEN IF vectorized.error \in GeodistErrors
                  THEN vectorized
                  ELSE [status |-> "none", error |-> "", value |-> <<>>,
                        calls |-> vectorized.calls]
             ELSE [vectorized EXCEPT !.value = CastAll(vectorized.value, otype)]

\* _dispatch(func, left, right, kwargs=kwargs, otypes=otypes): validation of
\* both arguments, the length check, the numpy path, then the Python path when
\* the numpy path returned None.
Dispatch(func, left_arg, right_arg, kwargs, otype) ==
    LET validated_left == ValidateGeometrySequence(left_arg)
        validated_right == ValidateGeometrySequence(right_arg)
        lengths == EnsureLengthsMatch(validated_left.geometries, validated_right.geometries)
        numpy_result == NumpyApply(func, validated_left.geometries, validated_right.geometries,
                                   kwargs, otype)
        python_result == PythonApply(func, validated_left.geometries,
                                     validated_right.geometries, kwargs,
                                     numpy_result.calls)
        \* the numpy path is entered unless line 57 returns at once
        entered == IF np = "absent" THEN <<>> ELSE <<"numpy">>
        failed(error) == [status |-> "raise", error |-> error, value |-> <<>>,
                          calls |-> <<>>, paths |-> <<>>]
    IN  IF validated_left.status = "raise" THEN failed(validated_left.error)
        ELSE IF validated_right.status = "raise" THEN failed(validated_right.error)
        ELSE IF lengths.status = "raise" THEN failed(lengths.error)
        ELSE IF numpy_result.status # "none"
        THEN [status |-> numpy_result.status, error |-> numpy_result.error,
              value |-> numpy_result.value, calls |-> numpy_result.calls,
              paths |-> entered]
        ELSE [status |-> python_result.status, error |-> python_result.error,
              value |-> python_result.value,
              calls |-> python_result.calls,
              paths |-> entered \o <<"python">>]

\* distance_many(left, right, crs=crs)
DistanceMany(left_arg, right_arg, crs) ==
    Dispatch("distance", left_arg, right_arg, crs, "float")

\* equals_many(left, right)
EqualsMany(left_arg, right_arg) == Dispatch("equals", left_arg, right_arg, "", "bool")

\* intersects_many(left, right)
IntersectsMany(left_arg, right_arg) == Dispatch("intersects", left_arg, right_arg, "", "bool")

\* within_many(left, right)
WithinMany(left_arg, right_arg) == Dispatch("within", left_arg, right_arg, "", "bool")

-----------------------------------------------------------------------------
(* The vectorized layer as a state machine: the caller holds two arguments  *)
(* and makes one *_many call; numpy and the kernel behave as np and fault   *)
(* say.                                                                     *)

HausdorffIdle ==
    /\ a = <<>>
    /\ b = <<>>
    /\ bounding_box = <<0, 2, 0, 4>>
    /\ call = ""
    /\ result = NotCalled

InitVec ==
    /\ left \in Arguments
    /\ right \in Arguments
    /\ np \in NumpyStates
    /\ fault \in Faults
    /\ vcall = NoVCall
    /\ vresult = NoVResult
    /\ calls = <<>>
    /\ paths = <<>>
    /\ HausdorffIdle
    /\ GeometryIdle
    /\ PolylineIdle
    /\ ChamferIdle
    /\ IoIdle
    /\ BumpIdle
    /\ GeodesicIdle

\* The outcome of a *_many call as the caller sees it, and the kernel log.
Finish(name, crs, outcome) ==
    /\ vcall' = [name |-> name, crs |-> crs]
    /\ vresult' = [status |-> outcome.status, error |-> outcome.error, value |-> outcome.value]
    /\ calls' = outcome.calls
    /\ paths' = outcome.paths
    /\ UNCHANGED <<left, right, np, fault>>
    /\ UNCHANGED <<hvars, gvars, dvars, pvars, cvars, ivars, bvars>>

CallDistanceMany ==
    /\ vcall = NoVCall
    /\ \E crs \in CRSValues : Finish("distance_many", crs, DistanceMany(left, right, crs))

CallEqualsMany ==
    /\ vcall = NoVCall
    /\ Finish("equals_many", "None", EqualsMany(left, right))

CallIntersectsMany ==
    /\ vcall = NoVCall
    /\ Finish("intersects_many", "None", IntersectsMany(left, right))

CallWithinMany ==
    /\ vcall = NoVCall
    /\ Finish("within_many", "None", WithinMany(left, right))

NextVec ==
    \/ CallDistanceMany
    \/ CallEqualsMany
    \/ CallIntersectsMany
    \/ CallWithinMany

SpecVec == InitVec /\ [][NextVec]_vars

-----------------------------------------------------------------------------
(* geometry.py: the constructors of Point, Point3D and BoundingBox.         *)
(*                                                                          *)
(* A Python value handed to a constructor is a record [kind, num].  The     *)
(* kinds "float", "nan", "inf" and "neginf" are the values of type float;   *)
(* "int", "bool" and "numeral" (a str such as "10.0") are values float()    *)
(* converts; "text" is a value float() refuses.  num counts halves: half    *)
(* degrees for an angle, half metres for an altitude, so True is num 2.     *)

PyFloat(n) == [kind |-> "float", num |-> n]
NaN == [kind |-> "nan", num |-> 0]
Inf == [kind |-> "inf", num |-> 0]
MinusInf == [kind |-> "neginf", num |-> 0]
Integer(n) == [kind |-> "int", num |-> n]
Boolean(n) == [kind |-> "bool", num |-> 2 * n]
Numeral(n) == [kind |-> "numeral", num |-> n]
Text == [kind |-> "text", num |-> 0]

\* float(value), for a value it accepts
ToFloat(value) ==
    IF value.kind \in {"int", "bool", "numeral"} THEN PyFloat(value.num) ELSE value

\* math.isfinite(x)
IsFinite(x) == x.kind = "float"

\* x < y on two floats: false whenever one of them is nan
FloatLess(x, y) ==
    /\ x.kind # "nan"
    /\ y.kind # "nan"
    /\ \/ x.kind = "neginf" /\ y.kind # "neginf"
       \/ x.kind # "inf" /\ y.kind = "inf"
       \/ x.kind = "float" /\ y.kind = "float" /\ x.num < y.num

\* x == y on two floats: nan equals nothing
FloatEq(x, y) == x.kind # "nan" /\ y.kind # "nan" /\ x = y

\* s == t on two tuples of floats
TupleEq(s, t) ==
    /\ Len(s) = Len(t)
    /\ \A i \in 1..Len(s) : FloatEq(s[i], t[i])

LATITUDE_MIN_DEGREES == PyFloat(-180)
LATITUDE_MAX_DEGREES == PyFloat(180)
LONGITUDE_MIN_DEGREES == PyFloat(-360)
LONGITUDE_MAX_DEGREES == PyFloat(360)

\* What a _coerce_* helper returns or raises.  A raised error carries the
\* name of the field and the values its message quotes.
Coerced(numeric_value) ==
    [status |-> "ok", error |-> "", field |-> "", values |-> <<>>, value |-> numeric_value]
InvalidGeometryError(name, values) ==
    [status |-> "raise", error |-> "InvalidGeometryError", field |-> name,
     values |-> values, value |-> PyFloat(0)]

\* _coerce_coordinate(value, min_value=, max_value=, name=)
CoerceCoordinate_skipsFinite(value, min_value, max_value, name) ==
    IF value.kind = "bool" THEN InvalidGeometryError(name, <<value>>)
    ELSE IF value.kind = "text" THEN InvalidGeometryError(name, <<value>>)
    ELSE LET numeric_value == ToFloat(value)
         IN  IF FloatLess(numeric_value, min_value) \/ FloatLess(max_value, numeric_value)
             THEN InvalidGeometryError(name, <<numeric_value>>)
             ELSE Coerced(numeric_value)

CoerceCoordinate(value, min_value, max_value, name) ==
    IF value.kind = "bool" THEN InvalidGeometryError(name, <<value>>)
    ELSE IF value.kind = "text" THEN InvalidGeometryError(name, <<value>>)
    ELSE LET numeric_value == ToFloat(value)
         IN  IF ~IsFinite(numeric_value)
             THEN InvalidGeometryError(name, <<numeric_value>>)
             ELSE IF FloatLess(numeric_value, min_value) \/ FloatLess(max_value, numeric_value)
             THEN InvalidGeometryError(name, <<numeric_value>>)
             ELSE Coerced(numeric_value)

\* _coerce_latitude(lat_deg)
CoerceLatitude(lat_deg) ==
    CoerceCoordinate(lat_deg, LATITUDE_MIN_DEGREES, LATITUDE_MAX_DEGREES, "lat_deg")

\* _coerce_longitude(lon_deg)
CoerceLongitude(lon_deg) ==
    CoerceCoordinate(lon_deg, LONGITUDE_MIN_DEGREES, LONGITUDE_MAX_DEGREES, "lon_deg")

\* _coerce_altitude(altitude_m)
CoerceAltitude(altitude_m) ==
    IF altitude_m.kind = "bool" THEN InvalidGeometryError("altitude_m", <<altitude_m>>)
    ELSE IF altitude_m.kind = "text" THEN InvalidGeometryError("altitude_m", <<altitude_m>>)
    ELSE LET numeric_value == ToFloat(altitude_m)
         IN  IF ~IsFinite(numeric_value)
             THEN InvalidGeometryError("altitude_m", <<numeric_value>>)
             ELSE Coerced(numeric_value)

\* The handle classes of the compiled kernel (_geodist_rs.Point, .Point3D,
\* .BoundingBox): a handle stores the floats it is given and to_tuple()
\* returns them in the order of the constructor.
KernelHandle(type, fields) == [type |-> type, fields |-> fields]
KernelToTuple(handle) == handle.fields
NoHandle == [type |-> "", fields |-> <<>>]

\* What a constructor does: the object it leaves (its _handle) or the error it
\* raises, and the kernel handles created on the way.
Constructed(handle) ==
    [status |-> "ok", error |-> "", field |-> "", values |-> <<>>,
     handle |-> handle, created |-> <<handle>>]
Rejected(raised) ==
    [status |-> "raise", error |-> raised.error, field |-> raised.field,
     values |-> raised.values, handle |-> NoHandle, created |-> <<>>]

\* Point.__init__(self, lat_deg, lon_deg)
PointInit(lat_deg, lon_deg) ==
    LET latitude == CoerceLatitude(lat_deg)
        longitude == CoerceLongitude(lon_deg)
    IN  IF latitude.status = "raise" THEN Rejected(latitude)
        ELSE IF longitude.status = "raise" THEN Rejected(longitude)
        ELSE Constructed(KernelHandle("Point", <<latitude.value, longitude.value>>))

\* Point.to_tuple(self)
PointToTuple_swapped(self) ==
    <<KernelToTuple(self)[2], KernelToTuple(self)[1]>>

PointToTuple(self) ==
    KernelToTuple(self)

\* Point.__iter__(self), collected by tuple()
PointIter(self) ==
    PointToTuple(self)

\* Point.__eq__(self, other), other a Point
PointEq(self, other) ==
    TupleEq(PointToTuple(self), PointToTuple(other))

\* Point3D.__init__(self, lat_deg, lon_deg, altitude_m)
Point3DInit(lat_deg, lon_deg, altitude_m) ==
    LET latitude == CoerceLatitude(lat_deg)
        longitude == CoerceLongitude(lon_deg)
        altitude == CoerceAltitude(altitude_m)
    IN  IF latitude.status = "raise" THEN Rejected(latitude)
        ELSE IF longitude.status = "raise" THEN Rejected(longitude)
        ELSE IF altitude.status = "raise" THEN Rejected(altitude)
        ELSE Constructed(KernelHandle("Point3D",
                                      <<latitude.value, longitude.value, altitude.value>>))

\* BoundingBox.__init__(self, min_lat_deg, max_lat_deg, min_lon_deg, max_lon_deg)
BoundingBoxInit(min_lat_deg, max_lat_deg, min_lon_deg, max_lon_deg) ==
    LET min_latitude == CoerceLatitude(min_lat_deg)
        max_latitude == CoerceLatitude(max_lat_deg)
        min_longitude == CoerceLongitude(min_lon_deg)
        max_longitude == CoerceLongitude(max_lon_deg)
    IN  IF min_latitude.status = "raise" THEN Rejected(min_latitude)
        ELSE IF max_latitude.status = "raise" THEN Rejected(max_latitude)
        ELSE IF min_longitude.status = "raise" THEN Rejected(min_longitude)
        ELSE IF max_longitude.status = "raise" THEN Rejected(max_longitude)
        ELSE IF FloatLess(max_latitude.value, min_latitude.value)
        THEN Rejected(InvalidGeometryError("min_lat_deg",
                                           <<min_latitude.value, max_latitude.value>>))
        ELSE IF FloatLess(max_longitude.value, min_longitude.value)
        THEN Rejected(InvalidGeometryError("min_lon_deg",
                                           <<min_longitude.value, max_longitude.value>>))
        ELSE Constructed(KernelHandle("BoundingBox",
                                      <<min_latitude.value, max_latitude.value,
                                        min_longitude.value, max_longitude.value>>))

\* BoundingBox.to_tuple(self)
BoundingBoxToTuple(self) ==
    KernelToTuple(self)

-----------------------------------------------------------------------------
(* The constructors as a state machine: a caller constructs one object from *)
(* values of its choice and, when that gave a Point, builds a second Point  *)
(* from the tuple of the first.                                             *)

\* Values a caller hands to Point and Point3D as an angle: the bounds of both
\* ranges, the first values outside them, values inside, and the values that
\* are no finite float.
AngleValues ==
    {PyFloat(n) : n \in {-362, -360, -182, -180, 0, 25, 180, 182, 360, 362}}
        \cup {Integer(-90), Boolean(1), Boolean(0), Numeral(20), Text, NaN, Inf, MinusInf}

\* Values a caller hands to Point3D as an altitude.
AltitudeValues ==
    {PyFloat(-500), PyFloat(0), PyFloat(500), Integer(20), Boolean(1), Text, NaN, Inf, MinusInf}

\* Values a caller hands to BoundingBox.
BoxValues ==
    {PyFloat(n) : n \in {-340, -20, -10, 0, 10, 20, 182, 340}} \cup {Boolean(1), NaN}

GFinish(name, args, outcome) ==
    /\ gcall' = [name |-> name, args |-> args]
    /\ gresult' = [status |-> outcome.status, error |-> outcome.error,
                   field |-> outcome.field, values |-> outcome.values,
                   handle |-> outcome.handle]
    /\ handles' = handles \o outcome.created
    /\ UNCHANGED roundtrip
    /\ UNCHANGED <<hvars, vvars, dvars, pvars, cvars, ivars, bvars>>

ConstructPoint ==
    /\ gcall = NoGCall
    /\ \E lat_deg \in AngleValues, lon_deg \in AngleValues :
           GFinish("Point", <<lat_deg, lon_deg>>, PointInit(lat_deg, lon_deg))

ConstructPoint3D ==
    /\ gcall = NoGCall
    /\ \E lat_deg \in AngleValues, lon_deg \in AngleValues, altitude_m \in AltitudeValues :
           GFinish("Point3D", <<lat_deg, lon_deg, altitude_m>>,
                   Point3DInit(lat_deg, lon_deg, altitude_m))

ConstructBoundingBox ==
    /\ gcall = NoGCall
    /\ \E min_lat_deg \in BoxValues, max_lat_deg \in BoxValues,
          min_lon_deg \in BoxValues, max_lon_deg \in BoxValues :
           GFinish("BoundingBox", <<min_lat_deg, max_lat_deg, min_lon_deg, max_lon_deg>>,
                   BoundingBoxInit(min_lat_deg, max_lat_deg, min_lon_deg, max_lon_deg))

\* q = Point(*p.to_tuple()), then q == p and tuple(p), for the Point p that
\* was constructed.
RebuildPoint ==
    /\ gcall.name = "Point"
    /\ gresult.status = "ok"
    /\ roundtrip = NoRoundTrip
    /\ LET p == gresult.handle
           as_tuple == PointToTuple(p)
           outcome == PointInit(as_tuple[1], as_tuple[2])
       IN  /\ roundtrip' = [status |-> outcome.status,
                            handle |-> outcome.handle,
                            equal |-> outcome.status = "ok" /\ PointEq(outcome.handle, p),
                            to_tuple |-> as_tuple,
                            iterated |-> PointIter(p)]
           /\ handles' = handles \o outcome.created
    /\ UNCHANGED <<gcall, gresult>>
    /\ UNCHANGED <<hvars, vvars, dvars, pvars, cvars, ivars, bvars>>

InitGeometry ==
    /\ GeometryIdle
    /\ PolylineIdle
    /\ ChamferIdle
    /\ IoIdle
    /\ BumpIdle
    /\ HausdorffIdle
    /\ VectorizedIdle
    /\ GeodesicIdle

NextGeometry ==
    \/ ConstructPoint
    \/ ConstructPoint3D
    \/ ConstructBoundingBox
    \/ RebuildPoint

SpecGeometry == InitGeometry /\ [][NextGeometry]_vars

-----------------------------------------------------------------------------
(* pure.py: the spherical distance and bearings.                            *)

\* _initial_bearing, in millionths of a degree, tabulated on the point
\* universe from the formula (arguments in half degrees).
InitialBearing(lat1, lon1, lat2, lon2) ==
    CASE lat1 = 0 /\ lon1 = 0 /\ lat2 = 0 /\ lon2 = 0 -> 0
      [] lat1 = 0 /\ lon1 = 0 /\ lat2 = 0 /\ lon2 = 2 -> 90000000
      [] lat1 = 0 /\ lon1 = 0 /\ lat2 = 2 /\ lon2 = 2 -> 44995636
      [] lat1 = 0 /\ lon1 = 0 /\ lat2 = 0 /\ lon2 = 4 -> 90000000
      [] lat1 = 0 /\ lon1 = 2 /\ lat2 = 0 /\ lon2 = 0 -> 270000000
      [] lat1 = 0 /\ lon1 = 2 /\ lat2 = 0 /\ lon2 = 2 -> 0
      [] lat1 = 0 /\ lon1 = 2 /\ lat2 = 2 /\ lon2 = 2 -> 0
      [] lat1 = 0 /\ lon1 = 2 /\ lat2 = 0 /\ lon2 = 4 -> 90000000
      [] lat1 = 2 /\ lon1 = 2 /\ lat2 = 0 /\ lon2 = 0 -> 225004364
      [] lat1 = 2 /\ lon1 = 2 /\ lat2 = 0 /\ lon2 = 2 -> 180000000
      [] lat1 = 2 /\ lon1 = 2 /\ lat2 = 2 /\ lon2 = 2 -> 0
      [] lat1 = 2 /\ lon1 = 2 /\ lat2 = 0 /\ lon2 = 4 -> 134995636
      [] lat1 = 0 /\ lon1 = 4 /\ lat2 = 0 /\ lon2 = 0 -> 270000000
      [] lat1 = 0 /\ lon1 = 4 /\ lat2 = 0 /\ lon2 = 2 -> 270000000
      [] lat1 = 0 /\ lon1 = 4 /\ lat2 = 2 /\ lon2 = 2 -> 315004364
      [] lat1 = 0 /\ lon1 = 4 /\ lat2 = 0 /\ lon2 = 4 -> 0

\* geodesic_distance_sphere(origin, destination)
GeodesicDistanceSphere_originLatitudeTwice(origin, destination) ==
    LET origin_pair == PointFromAny(origin)
        dest_pair == PointFromAny(destination)
    IN  HaversineDistance(origin_pair[1], origin_pair[1], dest_pair[1], dest_pair[2])

GeodesicDistanceSphere(origin, destination) ==
    LET origin_pair == PointFromAny(origin)
        dest_pair == PointFromAny(destination)
    IN  HaversineDistance(origin_pair[1], origin_pair[2], dest_pair[1], dest_pair[2])

\* GeodesicResult(distance_m=, initial_bearing_deg=, final_bearing_deg=)
GeodesicResult(distance_m, initial_bearing_deg, final_bearing_deg) ==
    [distance_m |-> distance_m,
     initial_bearing_deg |-> initial_bearing_deg,
     final_bearing_deg |-> final_bearing_deg]

\* geodesic_with_bearings_sphere(origin, destination)
GeodesicWithBearingsSphere_finalIsInitial(origin, destination) ==
    LET origin_pair == PointFromAny(origin)
        dest_pair == PointFromAny(destination)
        distance_m == HaversineDistance(origin_pair[1], origin_pair[2], dest_pair[1], dest_pair[2])
        initial == InitialBearing(origin_pair[1], origin_pair[2], dest_pair[1], dest_pair[2])
    IN  GeodesicResult(distance_m, initial, initial)

GeodesicWithBearingsSphere(origin, destination) ==
    LET origin_pair == PointFromAny(origin)
        dest_pair == PointFromAny(destination)
        distance_m == HaversineDistance(origin_pair[1], origin_pair[2], dest_pair[1], dest_pair[2])
        initial == InitialBearing(origin_pair[1], origin_pair[2], dest_pair[1], dest_pair[2])
        final == InitialBearing(dest_pair[1], dest_pair[2], origin_pair[1], origin_pair[2])
    IN  GeodesicResult(distance_m, initial, final)

-----------------------------------------------------------------------------
(* The two spherical functions as a state machine: a caller makes up to     *)
(* MaxCalls calls on points of its choice; geodesics is what each returned. *)

CallGeodesicDistanceSphere ==
    /\ Len(geodesics) < MaxCalls
    /\ \E origin \in Points, destination \in Points :
           geodesics' = Append(geodesics,
                               [name |-> "geodesic_distance_sphere",
                                origin |-> origin, destination |-> destination,
                                distance |-> GeodesicDistanceSphere(origin, destination),
                                bearings |-> <<>>])
    /\ UNCHANGED <<hvars, vvars, gvars, pvars, cvars, ivars, bvars>>

CallGeodesicWithBearingsSphere ==
    /\ Len(geodesics) < MaxCalls
    /\ \E origin \in Points, destination \in Points :
           LET returned == GeodesicWithBearingsSphere(origin, destination)
           IN  geodesics' = Append(geodesics,
                                   [name |-> "geodesic_with_bearings_sphere",
                                    origin |-> origin, destination |-> destination,
                                    distance |-> returned.distance_m,
                                    bearings |-> <<returned.initial_bearing_deg,
                                                   returned.final_bearing_deg>>])
    /\ UNCHANGED <<hvars, vvars, gvars, pvars, cvars, ivars, bvars>>

InitGeodesic ==
    /\ GeodesicIdle
    /\ HausdorffIdle
    /\ VectorizedIdle
    /\ GeometryIdle
    /\ PolylineIdle
    /\ ChamferIdle
    /\ IoIdle
    /\ BumpIdle

NextGeodesic ==
    \/ CallGeodesicDistanceSphere
    \/ CallGeodesicWithBearingsSphere

SpecGeodesic == InitGeodesic /\ [][NextGeodesic]_vars

-----------------------------------------------------------------------------
(* Reference notions the properties are stated with.  They are defined on   *)
(* sets, without the loops of pure.py.                                      *)

Dist(p, q) == HaversineDistance(p[1], p[2], q[1], q[2])

MinOf(S) == CHOOSE x \in S : \A y \in S : x <= y
MaxOf(S) == CHOOSE x \in S : \A y \in S : x >= y

\* Distance from p to its nearest point of the non-empty list B.
NearestDistance(p, B) == MinOf({Dist(p, B[j]) : j \in 1..Len(B)})

\* max over A of min over B, for non-empty lists.
MaxMin(A, B) == MaxOf({NearestDistance(A[i], B) : i \in 1..Len(A)})

\* p lies in the closed box <<min_lat, max_lat, min_lon, max_lon>>.
Contains(box, p) == p[1] \in box[1]..box[2] /\ p[2] \in box[3]..box[4]

\* The points of a list that lie in the box, in their original order.
Kept(points, box) == SelectSeq(points, LAMBDA p : Contains(box, p))

\* w is a pair of list A and list B that realizes distance_m, the candidate
\* being a nearest point of B to the origin.
Realizes(w, A, B) ==
    /\ w.origin_index \in 0..(Len(A) - 1)
    /\ w.candidate_index \in 0..(Len(B) - 1)
    /\ w.distance_m = Dist(A[w.origin_index + 1], B[w.candidate_index + 1])
    /\ \A j \in 1..Len(B) : Dist(A[w.origin_index + 1], B[j]) >= w.distance_m

\* w names the first origin of A at the maximum and its first nearest candidate.
FirstEncountered(w, A, B) ==
    /\ w.origin_index + 1 =
          MinOf({i \in 1..Len(A) : NearestDistance(A[i], B) = MaxMin(A, B)})
    /\ w.candidate_index + 1 =
          MinOf({j \in 1..Len(B) : Dist(A[w.origin_index + 1], B[j])
                                      = NearestDistance(A[w.origin_index + 1], B)})

Directed == call \in {"hausdorff_directed_naive", "hausdorff_directed_clipped_naive"}
Symmetric == call \in {"hausdorff_naive", "hausdorff_clipped_naive"}

-----------------------------------------------------------------------------
(* Properties of the Hausdorff functions (specification Spec) *)

\* C1: on non-empty A and B the directed Hausdorff distance is the maximum over
\* a in A of the minimum over b in B of d(a, b); this holds for the public
\* directed call and for both directed results inside the symmetric call.
C1_DirectedIsMaxOfMin ==
    (a # <<>> /\ b # <<>>) =>
        /\ call = "hausdorff_directed_naive" =>
              /\ result.status = "ok"
              /\ result.directed.distance_m = MaxMin(a, b)
        /\ call = "hausdorff_naive" =>
              /\ result.status = "ok"
              /\ result.symmetric.a_to_b.distance_m = MaxMin(a, b)
              /\ result.symmetric.b_to_a.distance_m = MaxMin(b, a)

\* A directed call whose maximum is realized by the first of two origins, the
\* second origin having a smaller nearest distance.
C1_Witness ==
    /\ call = "hausdorff_directed_naive"
    /\ Len(a) = 2 /\ Len(b) = 2
    /\ result.status = "ok"
    /\ result.directed.origin_index = 0
    /\ NearestDistance(a[2], b) < result.directed.distance_m

\* C2: every witness returned on non-empty A and B has indices inside A and B,
\* reports the distance of exactly that pair, and its candidate is a nearest
\* point of B to its origin; no public call returns an index of -1.
C2_WitnessRealizesDistance ==
    /\ (call = "hausdorff_directed_naive" /\ result.status = "ok") =>
          Realizes(result.directed, a, b)
    /\ (call = "hausdorff_naive" /\ result.status = "ok") =>
          /\ Realizes(result.symmetric.a_to_b, a, b)
          /\ Realizes(result.symmetric.b_to_a, b, a)
    /\ (Directed /\ result.status = "ok") =>
          result.directed.origin_index >= 0 /\ result.directed.candidate_index >= 0
    /\ (Symmetric /\ result.status = "ok") =>
          /\ result.symmetric.a_to_b.origin_index >= 0
          /\ result.symmetric.a_to_b.candidate_index >= 0
          /\ result.symmetric.b_to_a.origin_index >= 0
          /\ result.symmetric.b_to_a.candidate_index >= 0

\* A directed call whose witness is the second origin with the second candidate.
C2_Witness ==
    /\ call = "hausdorff_directed_naive"
    /\ result.status = "ok"
    /\ result.directed.origin_index = 1
    /\ result.directed.candidate_index = 1
    /\ result.directed.distance_m > 0

\* C3: ties go to the first encounter in index order: the witness names the
\* smallest origin index whose nearest distance is the maximum and, for that
\* origin, the smallest candidate index at the minimum distance.
C3_FirstEncounteredWinsTies ==
    /\ (call = "hausdorff_directed_naive" /\ result.status = "ok") =>
          FirstEncountered(result.directed, a, b)
    /\ (call = "hausdorff_naive" /\ result.status = "ok") =>
          /\ FirstEncountered(result.symmetric.a_to_b, a, b)
          /\ FirstEncountered(result.symmetric.b_to_a, b, a)

\* A directed call in which two origins at different places are both at the
\* maximum and both candidates are nearest to the winning origin.
C3_Witness ==
    /\ call = "hausdorff_directed_naive"
    /\ result.status = "ok"
    /\ Len(a) = 2 /\ Len(b) = 2
    /\ a[1] # a[2]
    /\ NearestDistance(a[1], b) = NearestDistance(a[2], b)
    /\ Dist(a[1], b[1]) = Dist(a[1], b[2])

\* C4: the symmetric result carries the witnesses of directed(A, B) and
\* directed(B, A) and its distance is the larger of their two distances; the
\* clipped symmetric variant does the same on the filtered lists.
C4_SymmetricIsMaxOfDirected ==
    /\ (call = "hausdorff_naive" /\ a # <<>> /\ b # <<>>) =>
          /\ result.status = "ok"
          /\ result.symmetric.a_to_b = HausdorffDirectedNaive(a, b).directed
          /\ result.symmetric.b_to_a = HausdorffDirectedNaive(b, a).directed
          /\ result.symmetric.distance_m =
                MaxOf({result.symmetric.a_to_b.distance_m, result.symmetric.b_to_a.distance_m})
    /\ (call = "hausdorff_clipped_naive"
          /\ Kept(a, bounding_box) # <<>> /\ Kept(b, bounding_box) # <<>>) =>
          /\ result.status = "ok"
          /\ result.symmetric.a_to_b =
                HausdorffDirectedNaive(Kept(a, bounding_box), Kept(b, bounding_box)).directed
          /\ result.symmetric.b_to_a =
                HausdorffDirectedNaive(Kept(b, bounding_box), Kept(a, bounding_box)).directed
          /\ result.symmetric.distance_m =
                MaxOf({result.symmetric.a_to_b.distance_m, result.symmetric.b_to_a.distance_m})

\* A symmetric call whose two directed distances differ, the reverse one larger.
C4_Witness ==
    /\ call = "hausdorff_naive"
    /\ result.status = "ok"
    /\ result.symmetric.a_to_b.distance_m < result.symmetric.b_to_a.distance_m
    /\ result.symmetric.distance_m = result.symmetric.b_to_a.distance_m

\* The scenario of C5: A = [Point(0,0), Point(0,1)], B = [Point(0,1)], unclipped.
C5_Scenario ==
    /\ call = "hausdorff_directed_naive"
    /\ a = << <<0, 0>>, <<0, 2>> >>
    /\ b = << <<0, 2>> >>

\* C5 as stated: the scenario returns distance 0.0 with witness
\* (origin_index 1, candidate_index 0).
C5_AsStated ==
    C5_Scenario =>
        /\ result.status = "ok"
        /\ result.directed = HausdorffDirectedWitness(0, 1, 0)

\* C5 amended: the scenario returns the distance from Point(0,0) to Point(0,1),
\* 111195.080 m, with witness (origin_index 0, candidate_index 0).
C5_ScenarioReturnsOriginToEast ==
    C5_Scenario =>
        /\ result.status = "ok"
        /\ result.directed = HausdorffDirectedWitness(111195080, 0, 0)

\* The scenario has run and returned.
C5_Witness == C5_Scenario /\ result.status = "ok"

\* C6: the indices of a witness of a clipped variant are positions in the
\* caller's lists: they name points that survived the clipping, and those two
\* points are at the reported distance.
C6_ClippedIndicesAreInputPositions ==
    (call = "hausdorff_directed_clipped_naive" /\ result.status = "ok") =>
        /\ result.directed.origin_index \in 0..(Len(a) - 1)
        /\ result.directed.candidate_index \in 0..(Len(b) - 1)
        /\ Contains(bounding_box, a[result.directed.origin_index + 1])
        /\ Contains(bounding_box, b[result.directed.candidate_index + 1])
        /\ result.directed.distance_m =
              Dist(a[result.directed.origin_index + 1], b[result.directed.candidate_index + 1])

\* C7: when the bounding box contains every point of A and of B, each clipped
\* variant gives what the unclipped function gives on the same lists: the same
\* distance and witnesses, or an error of the same class when a list is empty.
C7_ContainingBoxChangesNothing ==
    ((\A i \in 1..Len(a) : Contains(bounding_box, a[i]))
        /\ (\A j \in 1..Len(b) : Contains(bounding_box, b[j]))) =>
        /\ call = "hausdorff_directed_clipped_naive" =>
              /\ result.status = HausdorffDirectedNaive(a, b).status
              /\ result.error = HausdorffDirectedNaive(a, b).error
              /\ result.directed = HausdorffDirectedNaive(a, b).directed
        /\ call = "hausdorff_clipped_naive" =>
              /\ result.status = HausdorffNaive(a, b).status
              /\ result.error = HausdorffNaive(a, b).error
              /\ result.symmetric = HausdorffNaive(a, b).symmetric

\* A clipped directed call on two different points, both on the edge of a box
\* that contains them, returning a positive distance.
C7_Witness ==
    /\ call = "hausdorff_directed_clipped_naive"
    /\ result.status = "ok"
    /\ Len(a) = 2 /\ Len(b) = 1
    /\ \A i \in 1..Len(a) : Contains(bounding_box, a[i]) /\ a[i][1] = bounding_box[1]
    /\ Contains(bounding_box, b[1])
    /\ result.directed.distance_m > 0
    /\ result.directed.origin_index = 1

\* C8: the unclipped directed and symmetric calls fail with EmptyPointSetError,
\* returning nothing, when A is empty or B is empty.
C8_EmptySetRaisesEmptyPointSetError ==
    (call \in {"hausdorff_directed_naive", "hausdorff_naive"} /\ (a = <<>> \/ b = <<>>)) =>
        /\ result.status = "raise"
        /\ result.error = "EmptyPointSetError"

\* C9: a clipped variant fails with EmptyPointSetError, returning nothing,
\* whenever the filtered A or the filtered B is empty.
C9_EmptiedByClippingRaisesEmptyPointSetError ==
    (call \in {"hausdorff_directed_clipped_naive", "hausdorff_clipped_naive"}
        /\ (Kept(a, bounding_box) = <<>> \/ Kept(b, bounding_box) = <<>>)) =>
        /\ result.status = "raise"
        /\ result.error = "EmptyPointSetError"

-----------------------------------------------------------------------------
(* Properties of the vectorized layer (specification SpecVec) *)

\* The underlying operation of each *_many function.
FuncOf(name) ==
    CASE name = "distance_many" -> "distance"
      [] name = "equals_many" -> "equals"
      [] name = "intersects_many" -> "intersects"
      [] name = "within_many" -> "within"

\* Both arguments are lists of Geometry objects of the same length.
ValidPair ==
    /\ left.kind = "list" /\ right.kind = "list"
    /\ \A i \in 1..Len(left.items) : left.items[i] \in Geoms
    /\ \A i \in 1..Len(right.items) : right.items[i] \in Geoms
    /\ Len(left.items) = Len(right.items)

\* The underlying operation raises for no pair of the two lists.
NoPairRaises == fault.error = "" \/ \A i \in 1..Len(left.items) : left.items[i] # fault.at

\* The underlying operation is deterministic: what it does for a pair does not
\* depend on the calls it received before.
Deterministic == fault.times = "always"

\* op(left[i], right[i]) as the caller expects it: the value of the operation
\* of the call on the i-th pair, with the caller's crs for distance_many.
ExpectedValue(i) ==
    [type |-> IF vcall.name = "distance_many" THEN "float" ELSE "bool",
     func |-> FuncOf(vcall.name),
     left |-> left.items[i],
     right |-> right.items[i],
     crs |-> IF vcall.name = "distance_many" THEN vcall.crs ELSE ""]

\* C10: for two valid geometry sequences of equal length n on which the
\* operation raises for no pair, every *_many call returns a list of length n
\* whose i-th element is op(left[i], right[i]) (with the caller's crs for
\* distance_many), whether the numpy path or the Python path produced it; two
\* empty sequences give the empty list.
C10_ManyIsElementwiseInOrder ==
    (vcall.name # "" /\ ValidPair /\ NoPairRaises) =>
        /\ vresult.status = "ok"
        /\ Len(vresult.value) = Len(left.items)
        /\ \A i \in 1..Len(left.items) : vresult.value[i] = ExpectedValue(i)

\* A distance_many call with a crs on two different pairs, answered by the
\* Python path because numpy is absent.
C10_Witness ==
    /\ vcall = [name |-> "distance_many", crs |-> "EPSG:4326"]
    /\ ValidPair /\ NoPairRaises
    /\ np = "absent"
    /\ Len(left.items) = 2
    /\ left.items[1] # left.items[2]
    /\ vresult.status = "ok"
    /\ Len(calls) = 2

\* What the Python path alone returns on the two lists of the call: the
\* sequential application the other results are compared with.
SequentialValue ==
    [i \in 1..Len(left.items) |-> ExpectedValue(i)]

\* The underlying operation raises an error of class GeodistError (or of a
\* subclass) for some pair of the two lists.
DomainErrorForSomePair ==
    /\ fault.error \in {"GeodistError", "VectorizationError"}
    /\ \E i \in 1..Len(left.items) : left.items[i] = fault.at

\* The underlying operation raises an exception that is not a GeodistError for
\* some pair of the two lists.
OtherErrorForSomePair ==
    /\ fault.error = "RuntimeError"
    /\ \E i \in 1..Len(left.items) : left.items[i] = fault.at

\* C11: a *_many call fails with VectorizationError exactly when an argument is
\* not a sequence (a str counts as none), or an element of either argument is
\* not a Geometry, or the two lengths differ; in these cases the underlying
\* operation is invoked for no pair.
C11_VectorizationErrorIffInvalid ==
    vcall.name # "" =>
        /\ (vresult.status = "raise" /\ vresult.error = "VectorizationError") <=> ~ValidPair
        /\ ~ValidPair => calls = <<>>

\* A call on two lists of geometries of different lengths, with a working numpy
\* and a kernel that raises nothing, refused before any kernel call.
C11_Witness ==
    /\ vcall.name = "equals_many"
    /\ left.kind = "list" /\ right.kind = "list"
    /\ \A i \in 1..Len(left.items) : left.items[i] \in Geoms
    /\ \A i \in 1..Len(right.items) : right.items[i] \in Geoms
    /\ Len(left.items) = 1 /\ Len(right.items) = 2
    /\ np = "present" /\ fault.error = ""
    /\ vresult.status = "raise" /\ vresult.error = "VectorizationError"
    /\ calls = <<>>

\* C12: when the underlying operation raises a domain error for a pair of two
\* valid lists, the *_many call raises that same error, not another error and
\* not a list, whether the numpy path or the Python path made the call.
C12_DomainErrorPropagatesUnchanged ==
    (vcall.name # "" /\ ValidPair /\ DomainErrorForSomePair) =>
        /\ vresult.status = "raise"
        /\ vresult.error = fault.error
        /\ vresult.value = <<>>

\* A call that entered the numpy path, where the kernel raised GeodistError for
\* the second pair, and that raised GeodistError.
C12_Witness ==
    /\ vcall.name # "" /\ ValidPair
    /\ np = "present"
    /\ fault.error = "GeodistError"
    /\ Len(left.items) = 2 /\ left.items[1] # fault.at /\ left.items[2] = fault.at
    /\ paths = <<"numpy">>
    /\ vresult.status = "raise" /\ vresult.error = "GeodistError"

\* C13: on two valid lists the numpy path is entered first whenever numpy is
\* available; the Python path is entered exactly when numpy is unavailable or
\* the numpy path failed with an exception that is not a domain error; and a
\* returned list is the list sequential application returns.
C13_BulkFirstThenSequentialFallback ==
    (vcall.name # "" /\ ValidPair) =>
        /\ np # "absent" => (paths # <<>> /\ paths[1] = "numpy")
        /\ (\E k \in 1..Len(paths) : paths[k] = "python") <=>
              (np = "absent" \/ np = "failing" \/ OtherErrorForSomePair)
        /\ vresult.status = "ok" => vresult.value = SequentialValue

\* A call whose numpy path was left by a GeodistError: the Python path was not
\* entered.
C13_Witness ==
    /\ vcall.name # "" /\ ValidPair
    /\ np = "present"
    /\ DomainErrorForSomePair
    /\ paths = <<"numpy">>

-----------------------------------------------------------------------------
(* Properties of the constructors, over SpecGeometry.  A value is judged    *)
(* here by its kind and its number, without the helpers of geometry.py.     *)

\* n half degrees lie in [-90, 90] degrees / in [-180, 180] degrees
InLatitudeRange(n) == -180 <= n /\ n <= 180
InLongitudeRange(n) == -360 <= n /\ n <= 360

IsNumber(value) == value.kind \in {"float", "int", "numeral"}
IsBoolean(value) == value.kind = "bool"
IsNonFinite(value) == value.kind \in {"nan", "inf", "neginf"}

\* A boolean, a non-finite value or an out-of-range value, as a latitude, as a
\* longitude and as an altitude.
RefusedLatitude(value) ==
    IsBoolean(value) \/ IsNonFinite(value) \/ (IsNumber(value) /\ ~InLatitudeRange(value.num))
RefusedLongitude(value) ==
    IsBoolean(value) \/ IsNonFinite(value) \/ (IsNumber(value) /\ ~InLongitudeRange(value.num))
RefusedAltitude(value) ==
    IsBoolean(value) \/ IsNonFinite(value)

ValidLatitude(value) == IsNumber(value) /\ InLatitudeRange(value.num)
ValidLongitude(value) == IsNumber(value) /\ InLongitudeRange(value.num)
ValidAltitude(value) == IsNumber(value)

\* The four arguments of the BoundingBox call are valid one by one.
BoxCoordinatesValid ==
    /\ gcall.name = "BoundingBox"
    /\ ValidLatitude(gcall.args[1]) /\ ValidLatitude(gcall.args[2])
    /\ ValidLongitude(gcall.args[3]) /\ ValidLongitude(gcall.args[4])

\* C14: every Point and Point3D that exists holds a finite latitude within
\* [-90, 90], a finite longitude within [-180, 180] and, for Point3D, a finite
\* altitude; a constructor call that raised left no handle; a boolean, a
\* non-finite or an out-of-range argument makes the call raise; finite floats
\* within the ranges, the bounds included, and any finite altitude are accepted.
C14_PointsHoldValidatedFields ==
    /\ \A i \in 1..Len(handles) :
           handles[i].type \in {"Point", "Point3D"} =>
               /\ handles[i].fields[1].kind = "float"
               /\ InLatitudeRange(handles[i].fields[1].num)
               /\ handles[i].fields[2].kind = "float"
               /\ InLongitudeRange(handles[i].fields[2].num)
               /\ handles[i].type = "Point3D" => handles[i].fields[3].kind = "float"
    /\ gcall.name \in {"Point", "Point3D"} =>
           /\ gresult.status = "raise" => handles = <<>>
           /\ (\/ RefusedLatitude(gcall.args[1])
               \/ RefusedLongitude(gcall.args[2])
               \/ (gcall.name = "Point3D" /\ RefusedAltitude(gcall.args[3])))
                  => gresult.status = "raise"
           /\ (/\ gcall.args[1].kind = "float" /\ InLatitudeRange(gcall.args[1].num)
               /\ gcall.args[2].kind = "float" /\ InLongitudeRange(gcall.args[2].num)
               /\ gcall.name = "Point3D" => gcall.args[3].kind = "float")
                  => (gresult.status = "ok" /\ handles # <<>> /\ handles[1] = gresult.handle)

\* Point3D(90, -180, inf): latitude and longitude on their bounds pass, the
\* altitude is refused, and no handle was created.
C14_Witness ==
    /\ gcall.name = "Point3D"
    /\ gcall.args = <<PyFloat(180), PyFloat(-360), Inf>>
    /\ gresult.status = "raise"
    /\ handles = <<>>

\* The error kind the claim names for the first violation a constructor call
\* meets, in the order of its parameters.
ExpectedErrorKind ==
    IF gcall.name = "BoundingBox"
    THEN IF ~ValidLatitude(gcall.args[1]) \/ ~ValidLatitude(gcall.args[2])
         THEN "InvalidLatitudeError"
         ELSE IF ~ValidLongitude(gcall.args[3]) \/ ~ValidLongitude(gcall.args[4])
         THEN "InvalidLongitudeError"
         ELSE "InvalidBoundingBoxError"
    ELSE IF ~ValidLatitude(gcall.args[1]) THEN "InvalidLatitudeError"
         ELSE IF ~ValidLongitude(gcall.args[2]) THEN "InvalidLongitudeError"
         ELSE "InvalidAltitudeError"

\* C15: a constructor call that is refused raises the error kind of the
\* violated field: InvalidLatitudeError, InvalidLongitudeError,
\* InvalidAltitudeError or InvalidBoundingBoxError, and the error names a
\* field and carries a value.
C15_DistinctErrorKindPerField ==
    gresult.status = "raise" =>
        /\ gresult.error = ExpectedErrorKind
        /\ gresult.field # ""
        /\ gresult.values # <<>>

\* C16: a BoundingBox call with valid coordinates and min_lat > max_lat raises
\* InvalidBoundingBoxError and creates no box; with min_lat = max_lat (and
\* ordered longitudes) it is accepted; every box that exists has
\* min_lat <= max_lat.
C16_InvertedLatitudesRaiseInvalidBoundingBoxError ==
    /\ BoxCoordinatesValid =>
           /\ gcall.args[1].num > gcall.args[2].num =>
                  /\ gresult.status = "raise"
                  /\ gresult.error = "InvalidBoundingBoxError"
                  /\ handles = <<>>
           /\ (gcall.args[1].num = gcall.args[2].num /\ gcall.args[3].num <= gcall.args[4].num)
                  => gresult.status = "ok"
    /\ \A i \in 1..Len(handles) :
           handles[i].type = "BoundingBox" =>
               handles[i].fields[1].num <= handles[i].fields[2].num

\* C17: a BoundingBox call with valid coordinates, min_lat <= max_lat and
\* min_lon > max_lon is accepted, and to_tuple of the box returns the four
\* values of the call.
C17_AntimeridianBoxIsAccepted ==
    (/\ BoxCoordinatesValid
     /\ gcall.args[1].num <= gcall.args[2].num
     /\ gcall.args[3].num > gcall.args[4].num)
        => /\ gresult.status = "ok"
           /\ BoundingBoxToTuple(gresult.handle) = gcall.args

\* C18: for the Point p a call constructed, Point(*p.to_tuple()) succeeds, the
\* new Point equals p and holds the coordinates of p, and tuple(p) is
\* p.to_tuple().
C18_PointRoundTrip ==
    roundtrip.status # "none" =>
        /\ roundtrip.status = "ok"
        /\ roundtrip.equal
        /\ roundtrip.handle.fields = gresult.handle.fields
        /\ roundtrip.iterated = roundtrip.to_tuple

\* Point(12.5, -45), given a float and an int, rebuilt from its tuple
\* (12.5, -45.0): two handles exist and the two Points are equal.
C18_Witness ==
    /\ gcall.name = "Point"
    /\ gcall.args = <<PyFloat(25), Integer(-90)>>
    /\ roundtrip.status = "ok"
    /\ roundtrip.to_tuple = <<PyFloat(25), PyFloat(-90)>>
    /\ roundtrip.equal
    /\ Len(handles) = 2

-----------------------------------------------------------------------------
(* Properties of the spherical functions, over SpecGeodesic.                *)

\* Call j was made on the points of call i in the opposite order, with the
\* same function.
Reverses(i, j) ==
    /\ geodesics[j].name = geodesics[i].name
    /\ geodesics[j].origin = geodesics[i].destination
    /\ geodesics[j].destination = geodesics[i].origin

\* C19: geodesic_distance_sphere returns 0 from a point to itself, and the
\* same distance for a pair of points in either order.
C19_DistanceReflexiveAndSymmetric ==
    \A i \in 1..Len(geodesics) :
        geodesics[i].name = "geodesic_distance_sphere" =>
            /\ geodesics[i].origin = geodesics[i].destination => geodesics[i].distance = 0
            /\ \A j \in 1..Len(geodesics) :
                   Reverses(i, j) => geodesics[j].distance = geodesics[i].distance

\* The distance from Point(0, 0) to Point(1, 1) and back: two calls, one
\* non-zero distance.
C19_Witness ==
    /\ Len(geodesics) = 2
    /\ geodesics[1].name = "geodesic_distance_sphere"
    /\ geodesics[1].origin = <<0, 0>> /\ geodesics[1].destination = <<2, 2>>
    /\ Reverses(1, 2)
    /\ geodesics[1].distance > 0
    /\ geodesics[2].distance = geodesics[1].distance

C21_DueEastBearingsAreBoth90 ==
    \A i \in 1..Len(geodesics) :
        (/\ geodesics[i].name = "geodesic_with_bearings_sphere"
         /\ geodesics[i].origin = <<0, 0>>
         /\ geodesics[i].destination = <<0, 2>>)
            => geodesics[i].bearings = <<90000000, 90000000>>

\* The log of a call that invokes the operation once per element pair, in index
\* order.
OncePerPairInOrder ==
    [i \in 1..Len(left.items) |->
        <<FuncOf(vcall.name), left.items[i], right.items[i], ExpectedValue(i).crs>>]

\* C25: during a *_many call that returns a list the operation is invoked
\* exactly once per element pair, in index order, and no pair is invoked again,
\* also when the numpy path failed part-way with an exception that is not a
\* domain error and the Python path took over.
C25_EachPairInvokedOnceInOrder ==
    (vcall.name # "" /\ ValidPair /\ vresult.status = "ok") =>
        calls = OncePerPairInOrder

\* The operation raises for at least one pair of the two lists.
RaisesForSomePair ==
    fault.error # "" /\ \E i \in 1..Len(left.items) : left.items[i] = fault.at

\* C26: when the deterministic operation raises for at least one pair, whether a
\* domain error or not, the *_many call returns no list: it raises the
\* operation's exception, which the Python path raises again after the numpy
\* path swallowed it.
C26_NoListWhenSomePairRaises ==
    (vcall.name # "" /\ ValidPair /\ Deterministic /\ RaisesForSomePair) =>
        /\ vresult.status = "raise"
        /\ vresult.error = fault.error
        /\ vresult.value = <<>>

\* A call with numpy present where the operation raises RuntimeError for the
\* second pair every time: the numpy path swallowed it, the Python path ran and
\* raised it again.
C26_Witness ==
    /\ vcall.name # "" /\ ValidPair /\ Deterministic
    /\ np = "present"
    /\ fault.error = "RuntimeError"
    /\ Len(left.items) = 2 /\ left.items[1] # fault.at /\ left.items[2] = fault.at
    /\ paths = <<"numpy", "python">>
    /\ Len(calls) = 4
    /\ vresult.status = "raise" /\ vresult.error = "RuntimeError"

-----------------------------------------------------------------------------
(* Further properties of the Hausdorff functions (specification Spec) *)

\* C27: clipping keeps exactly the points with min_lat <= lat <= max_lat and
\* min_lon <= lon <= max_lon, the boundary included, in their original relative
\* order, and filters both lists before any distance is computed: a clipped call
\* returns what the unclipped function returns on the two filtered lists, and
\* returns no distance when a filtered list is empty.
C27_ClippingFiltersBothListsFirst ==
    LET kept_a == Kept(a, bounding_box)
        kept_b == Kept(b, bounding_box)
    IN  /\ call = "hausdorff_directed_clipped_naive" =>
              IF kept_a = <<>> \/ kept_b = <<>>
              THEN result.status = "raise" /\ result.directed = NoWitness
              ELSE /\ result.status = "ok"
                   /\ result.directed = HausdorffDirectedNaive(kept_a, kept_b).directed
        /\ call = "hausdorff_clipped_naive" =>
              IF kept_a = <<>> \/ kept_b = <<>>
              THEN result.status = "raise" /\ result.symmetric = NoSymmetric
              ELSE /\ result.status = "ok"
                   /\ result.symmetric = HausdorffNaive(kept_a, kept_b).symmetric

\* A clipped directed call on two different points of A, both kept, one of them
\* on the edge of the box, and a list B that lost a point to the clipping: the
\* witness names the second kept point of A.
C27_Witness ==
    /\ call = "hausdorff_directed_clipped_naive"
    /\ result.status = "ok"
    /\ Len(a) = 2 /\ Kept(a, bounding_box) = a /\ a[1] # a[2]
    /\ \E i \in 1..2 : a[i][1] = bounding_box[1] \/ a[i][1] = bounding_box[2]
    /\ Len(b) = 2 /\ Len(Kept(b, bounding_box)) = 1
    /\ result.directed.origin_index = 1

\* The directed distance the unclipped directed function returns on two
\* non-empty lists.
DirectedDistance(A, B) == HausdorffDirectedNaive(A, B).directed.distance_m

\* C28: the directed Hausdorff distance is monotone.  Adding a point to B never
\* increases directed(A, B); adding a point to A never decreases it; the
\* distance is 0 whenever every point of A occurs in B; and directed(A, A)
\* returns the witness (origin_index 0, candidate_index 0).
C28_DirectedIsMonotone ==
    (call = "hausdorff_directed_naive" /\ a # <<>> /\ b # <<>>) =>
        /\ result.status = "ok"
        /\ \A p \in Points :
              /\ DirectedDistance(a, Append(b, p)) <= result.directed.distance_m
              /\ DirectedDistance(Append(a, p), b) >= result.directed.distance_m
        /\ (\A i \in 1..Len(a) : \E j \in 1..Len(b) : a[i] = b[j]) =>
              result.directed.distance_m = 0
        /\ a = b => result.directed = HausdorffDirectedWitness(0, 0, 0)

\* A directed call that returned a positive distance, which one more point in
\* B brings down and one more point in A brings up.
C28_Witness ==
    /\ call = "hausdorff_directed_naive"
    /\ Len(a) = 2 /\ Len(b) = 1
    /\ result.status = "ok"
    /\ result.directed.distance_m > 0
    /\ \E p \in Points : DirectedDistance(a, Append(b, p)) < result.directed.distance_m
    /\ \E p \in Points : DirectedDistance(Append(a, p), b) > result.directed.distance_m

-----------------------------------------------------------------------------
(* Densification of a LineString (kernel function densify, reached through *)
(* LineString.densify and the polyline Hausdorff and Chamfer functions).    *)
(*                                                                         *)
(* Units.  The vertices lie on one great circle and are written as their   *)
(* position along it, an integer number of ARC UNITS; the distance between *)
(* two vertices is the difference of their positions.  A limit of          *)
(* max_segment_length_m is a number of arc units, and one degree of        *)
(* max_segment_angle_deg subtends ArcPerDegree arc units.  The positions   *)
(* and limits used make every interpolated sample fall on an integer.      *)

MaxVertices == 3    \* most vertices of a LineString handed to densify
MaxSampleCap == 5   \* largest sample_cap handed to DensificationOptions

\* None for a knob of DensificationOptions that is not set.
Unset == 0

ArcPerDegree == 10

Positions == {0, 60, 120}

\* The LineStrings handed to densify: at least two vertices, no two
\* consecutive vertices equal.
Polylines ==
    {line \in UNION {[1..k -> Positions] : k \in 2..MaxVertices} :
        \A i \in 1..(Len(line) - 1) : line[i] # line[i + 1]}

LengthLimits == {Unset, 20, 40, 60, 100}
AngleLimits == {Unset, 3, 12}
SampleCaps == 2..MaxSampleCap

\* DensificationOptions(max_segment_length_m, max_segment_angle_deg,
\* sample_cap): refused when neither knob is set.
DensificationOptions(max_segment_length_m, max_segment_angle_deg, sample_cap) ==
    IF max_segment_length_m = Unset /\ max_segment_angle_deg = Unset
    THEN [NoOptions EXCEPT !.status = "raise", !.error = "InvalidDistanceError"]
    ELSE [status |-> "ok", error |-> "",
          max_segment_length_m |-> max_segment_length_m,
          max_segment_angle_deg |-> max_segment_angle_deg,
          sample_cap |-> sample_cap]

ArcLength(from, to) == IF from <= to THEN to - from ELSE from - to

\* ceil(length / limit) for positive integers.
CeilDiv(length, limit) == (length + limit - 1) \div limit

\* The number of parts one segment is cut into: the least number that meets
\* every knob that is set, and at least one.
SegmentParts_floor(length, opts) ==
    LET by_length == IF opts.max_segment_length_m = Unset THEN 1
                     ELSE length \div opts.max_segment_length_m
        by_angle == IF opts.max_segment_angle_deg = Unset THEN 1
                    ELSE length \div (opts.max_segment_angle_deg * ArcPerDegree)
        parts == IF by_length >= by_angle THEN by_length ELSE by_angle
    IN  IF parts < 1 THEN 1 ELSE parts

SegmentParts_oneMore(length, opts) ==
    LET by_length == IF opts.max_segment_length_m = Unset THEN 1
                     ELSE CeilDiv(length, opts.max_segment_length_m)
        by_angle == IF opts.max_segment_angle_deg = Unset THEN 1
                    ELSE CeilDiv(length, opts.max_segment_angle_deg * ArcPerDegree)
        parts == IF by_length >= by_angle THEN by_length ELSE by_angle
    IN  IF parts < 1 THEN 2 ELSE parts + 1

SegmentParts(length, opts) ==
    LET by_length == IF opts.max_segment_length_m = Unset THEN 1
                     ELSE CeilDiv(length, opts.max_segment_length_m)
        by_angle == IF opts.max_segment_angle_deg = Unset THEN 1
                    ELSE CeilDiv(length, opts.max_segment_angle_deg * ArcPerDegree)
        parts == IF by_length >= by_angle THEN by_length ELSE by_angle
    IN  IF parts < 1 THEN 1 ELSE parts

\* The number of samples of the densified line, the original vertices
\* included: the first vertex and the parts of every segment.
RECURSIVE SampleCount(_, _)
SampleCount(vertices, opts) ==
    IF Len(vertices) <= 1
    THEN Len(vertices)
    ELSE SegmentParts(ArcLength(vertices[1], vertices[2]), opts)
            + SampleCount(Tail(vertices), opts)

\* The samples that follow the start of one segment: its interior samples,
\* evenly spaced, and its end vertex.
SegmentSamples(from, to, parts) ==
    [j \in 1..parts |->
        IF j = parts THEN to
        ELSE IF from <= to THEN from + (j * (to - from)) \div parts
        ELSE from - (j * (from - to)) \div parts]

RECURSIVE SamplesFrom(_, _)
SamplesFrom(vertices, opts) ==
    IF Len(vertices) <= 1
    THEN vertices
    ELSE <<vertices[1]>>
            \o SegmentSamples(vertices[1], vertices[2],
                              SegmentParts(ArcLength(vertices[1], vertices[2]), opts))
            \o Tail(SamplesFrom(Tail(vertices), opts))

\* densify(vertices, options): the samples, or the failure when their number
\* would exceed sample_cap.
Densify(vertices, opts) ==
    IF SampleCount(vertices, opts) > opts.sample_cap
    THEN [status |-> "raise", error |-> "InvalidDistanceError", samples |-> <<>>]
    ELSE [status |-> "ok", error |-> "", samples |-> SamplesFrom(vertices, opts)]

\* A knob that is at least as loose as another: unset, or set to a limit
\* that is not smaller.
LooserKnob(old, new) == new = Unset \/ (old # Unset /\ new >= old)

\* Options that are the same as opts or looser in every limit.
SameOrLooser(opts, new) ==
    /\ new.status = "ok"
    /\ LooserKnob(opts.max_segment_length_m, new.max_segment_length_m)
    /\ LooserKnob(opts.max_segment_angle_deg, new.max_segment_angle_deg)
    /\ new.sample_cap >= opts.sample_cap

InitPolyline ==
    /\ polyline \in Polylines
    /\ options = NoOptions
    /\ densified = NotDensified
    /\ reoptions = NoOptions
    /\ redensified = NotDensified
    /\ HausdorffIdle
    /\ VectorizedIdle
    /\ GeometryIdle
    /\ GeodesicIdle
    /\ ChamferIdle
    /\ IoIdle
    /\ BumpIdle

\* The caller builds the options and, when they were accepted, densifies the
\* line with them.
CallDensify ==
    /\ options = NoOptions
    /\ \E max_segment_length_m \in LengthLimits, max_segment_angle_deg \in AngleLimits,
          sample_cap \in SampleCaps :
          LET built == DensificationOptions(max_segment_length_m, max_segment_angle_deg,
                                            sample_cap)
          IN  /\ options' = built
              /\ densified' = IF built.status = "ok" THEN Densify(polyline, built)
                              ELSE NotDensified
    /\ UNCHANGED <<polyline, reoptions, redensified>>
    /\ UNCHANGED <<hvars, vvars, gvars, dvars, cvars, ivars, bvars>>

\* The caller densifies the returned samples again, with the same options or
\* with looser ones.
Redensify ==
    /\ densified.status = "ok"
    /\ reoptions = NoOptions
    /\ \E max_segment_length_m \in LengthLimits, max_segment_angle_deg \in AngleLimits,
          sample_cap \in 2..(MaxSampleCap + 1) :
          LET built == DensificationOptions(max_segment_length_m, max_segment_angle_deg,
                                            sample_cap)
          IN  /\ SameOrLooser(options, built)
              /\ reoptions' = built
              /\ redensified' = Densify(densified.samples, built)
    /\ UNCHANGED <<polyline, options, densified>>
    /\ UNCHANGED <<hvars, vvars, gvars, dvars, cvars, ivars, bvars>>

NextPolyline ==
    \/ CallDensify
    \/ Redensify

SpecPolyline == InitPolyline /\ [][NextPolyline]_vars

-----------------------------------------------------------------------------
(* Properties of densification (specification SpecPolyline) *)

\* The arc limit a segment has to meet under opts: every set knob, in arc
\* units.
MeetsLimits(length, opts) ==
    /\ opts.max_segment_length_m # Unset => length <= opts.max_segment_length_m
    /\ opts.max_segment_angle_deg # Unset =>
          length <= opts.max_segment_angle_deg * ArcPerDegree

\* The least number of equal parts of a segment that meet the limits.
PartsNeeded(length, opts) ==
    CHOOSE k \in 1..length :
        /\ \E piece \in 1..length : piece * k >= length /\ MeetsLimits(piece, opts)
        /\ \A fewer \in 1..(k - 1) :
              ~\E piece \in 1..length : piece * fewer >= length /\ MeetsLimits(piece, opts)

\* The points a densified line needs to meet the limits: the vertices and the
\* samples inside every segment.
RECURSIVE PointsNeeded(_, _)
PointsNeeded(vertices, opts) ==
    IF Len(vertices) <= 1
    THEN Len(vertices)
    ELSE PartsNeeded(ArcLength(vertices[1], vertices[2]), opts)
            + PointsNeeded(Tail(vertices), opts)

\* The vertices occur among the samples, in order.
ContainsInOrder(samples, vertices) ==
    \E at \in [1..Len(vertices) -> 1..Len(samples)] :
        /\ \A i \in 1..Len(vertices) : samples[at[i]] = vertices[i]
        /\ \A i \in 1..(Len(vertices) - 1) : at[i] < at[i + 1]

\* C22: densify(polyline, options) either fails or returns samples that start
\* at the first vertex, end at the last vertex, contain every original vertex
\* in order, have no consecutive pair farther apart than max_segment_length_m
\* (when set) and are at most sample_cap points; it fails exactly when meeting
\* the limits needs more than sample_cap points.
C22_DensifyMeetsLimitsOrFails ==
    options.status = "ok" =>
        /\ densified.status \in {"ok", "raise"}
        /\ densified.status = "raise" <=> PointsNeeded(polyline, options) > options.sample_cap
        /\ densified.status = "ok" =>
              LET samples == densified.samples
              IN  /\ samples # <<>>
                  /\ samples[1] = polyline[1]
                  /\ samples[Len(samples)] = polyline[Len(polyline)]
                  /\ ContainsInOrder(samples, polyline)
                  /\ options.max_segment_length_m # Unset =>
                        \A i \in 1..(Len(samples) - 1) :
                            ArcLength(samples[i], samples[i + 1])
                                <= options.max_segment_length_m
                  /\ Len(samples) <= options.sample_cap

\* A line of three vertices that turns back, densified under a length limit
\* that splits its first segment only: samples were added and the cap was met
\* exactly.
C22_Witness ==
    /\ options.status = "ok" /\ options.max_segment_length_m = 60
    /\ polyline = <<0, 120, 60>>
    /\ densified.status = "ok"
    /\ Len(densified.samples) > Len(polyline)
    /\ Len(densified.samples) = options.sample_cap

\* C23: densification is idempotent: densifying the samples densify returned
\* again, with the same options or with looser limits, returns as many samples
\* as it was given.
C23_DensifyIsIdempotent ==
    reoptions # NoOptions =>
        /\ redensified.status = "ok"
        /\ Len(redensified.samples) = Len(densified.samples)

\* A second densification, with the same options, of samples to which the first
\* one had added points.
C23_Witness ==
    /\ reoptions = options
    /\ options.status = "ok"
    /\ densified.status = "ok"
    /\ Len(densified.samples) > Len(polyline)
    /\ redensified.status = "ok"

-----------------------------------------------------------------------------
(* Directed Chamfer distance between two sample sequences (kernel function *)
(* chamfer_directed_polyline after densification).  Samples are points of  *)
(* the universe Points; distances are great-circle distances in            *)
(* millimetres, and the mean is rounded down to a millimetre.              *)

Reductions == {"mean", "max"}

\* The nearest sample of samples_b to one sample: its distance and Python
\* index, the first one on a tie.
RECURSIVE NearestSample(_, _, _, _)
NearestSample(sample, targets, target_index, nearest) ==
    IF target_index >= Len(targets)
    THEN nearest
    ELSE LET target == targets[target_index + 1]
             distance == HaversineDistance(sample[1], sample[2], target[1], target[2])
         IN  NearestSample(sample, targets, target_index + 1,
                           IF nearest.target_index = -1 \/ distance < nearest.distance_m
                           THEN [distance_m |-> distance, target_index |-> target_index]
                           ELSE nearest)

\* The nearest-neighbour distance of every sample of the source, in order.
PerSampleNearest(sources, targets) ==
    [i \in 1..Len(sources) |->
        NearestSample(sources[i], targets, 0, [distance_m |-> 0, target_index |-> -1])]

RECURSIVE SumOfNearest(_)
SumOfNearest(nearest) ==
    IF nearest = <<>> THEN 0 ELSE Head(nearest).distance_m + SumOfNearest(Tail(nearest))

\* The "max" reduction: the first sample at the largest nearest-neighbour
\* distance, as a directed witness.
RECURSIVE ReduceMax_lastMaximum(_, _, _)
ReduceMax_lastMaximum(nearest, source_index, best) ==
    IF source_index >= Len(nearest)
    THEN best
    ELSE LET this == nearest[source_index + 1]
         IN  ReduceMax_lastMaximum(nearest, source_index + 1,
                       IF best.origin_index = -1 \/ this.distance_m >= best.distance_m
                       THEN HausdorffDirectedWitness(this.distance_m, source_index,
                                                     this.target_index)
                       ELSE best)

RECURSIVE ReduceMax(_, _, _)
ReduceMax(nearest, source_index, best) ==
    IF source_index >= Len(nearest)
    THEN best
    ELSE LET this == nearest[source_index + 1]
         IN  ReduceMax(nearest, source_index + 1,
                       IF best.origin_index = -1 \/ this.distance_m > best.distance_m
                       THEN HausdorffDirectedWitness(this.distance_m, source_index,
                                                     this.target_index)
                       ELSE best)

\* chamfer_directed_polyline on the samples of the two sides.
ChamferDirected(sources, targets, reduction) ==
    IF sources = <<>> \/ targets = <<>>
    THEN [NoChamfer EXCEPT !.status = "raise", !.error = "EmptyPointSetError",
                           !.reduction = reduction]
    ELSE LET nearest == PerSampleNearest(sources, targets)
             witness == ReduceMax(nearest, 0, HausdorffDirectedWitness(0, -1, -1))
         IN  IF reduction = "mean"
             THEN [status |-> "ok", error |-> "", reduction |-> reduction,
                   distance_m |-> SumOfNearest(nearest) \div Len(nearest),
                   has_witness |-> FALSE, witness |-> NoWitness]
             ELSE [status |-> "ok", error |-> "", reduction |-> reduction,
                   distance_m |-> witness.distance_m,
                   has_witness |-> TRUE, witness |-> witness]

InitChamfer ==
    /\ samples_a \in SeqsUpTo(Points, MaxLen)
    /\ samples_b \in SeqsUpTo(Points, MaxLen)
    /\ chamfer = NoChamfer
    /\ HausdorffIdle
    /\ VectorizedIdle
    /\ GeometryIdle
    /\ GeodesicIdle
    /\ PolylineIdle
    /\ IoIdle
    /\ BumpIdle

CallChamferDirected ==
    /\ chamfer = NoChamfer
    /\ \E reduction \in Reductions :
          chamfer' = ChamferDirected(samples_a, samples_b, reduction)
    /\ UNCHANGED <<samples_a, samples_b>>
    /\ UNCHANGED <<hvars, vvars, gvars, dvars, pvars, ivars, bvars>>

NextChamfer == CallChamferDirected

SpecChamfer == InitChamfer /\ [][NextChamfer]_vars

-----------------------------------------------------------------------------
(* Properties of the directed Chamfer distance (specification SpecChamfer) *)

RECURSIVE SumOfNearestDistances(_, _)
SumOfNearestDistances(A, B) ==
    IF A = <<>> THEN 0
    ELSE NearestDistance(Head(A), B) + SumOfNearestDistances(Tail(A), B)

\* C24: the directed Chamfer distance with reduction "mean" is the average of
\* the per-sample nearest-neighbour distances and carries no witness; with
\* reduction "max" it is the maximum of those distances and carries a witness
\* with the same distance_m: the distance and the witness of the directed
\* Hausdorff distance on the same samples.
C24_ChamferMeanAndMax ==
    chamfer.status = "ok" =>
        /\ chamfer.reduction = "mean" =>
              /\ ~chamfer.has_witness
              /\ chamfer.distance_m * Len(samples_a)
                    <= SumOfNearestDistances(samples_a, samples_b)
              /\ SumOfNearestDistances(samples_a, samples_b)
                    < (chamfer.distance_m + 1) * Len(samples_a)
        /\ chamfer.reduction = "max" =>
              /\ chamfer.has_witness
              /\ chamfer.witness.distance_m = chamfer.distance_m
              /\ chamfer.distance_m = MaxMin(samples_a, samples_b)
              /\ chamfer.witness = HausdorffDirectedNaive(samples_a, samples_b).directed

\* A "max" call on two different samples that are equally far from the only
\* target: the witness names the first of them.
C24_Witness ==
    /\ chamfer.status = "ok" /\ chamfer.reduction = "max"
    /\ Len(samples_a) = 2 /\ samples_a[1] # samples_a[2] /\ Len(samples_b) = 1
    /\ Dist(samples_a[1], samples_b[1]) = Dist(samples_a[2], samples_b[1])
    /\ chamfer.distance_m > 0
    /\ chamfer.witness.origin_index = 0

-----------------------------------------------------------------------------
(* geodist/io.py: loads_geojson.  A Python value is a record [kind, value]; *)
(* kind is the value's type and value tells values of one type apart.       *)

\* Values callers pass as crs or store under the mapping's "crs" key: None,
\* the ints 4326 and 3857, the strs "EPSG:4326" and "EPSG:3857" (value holds
\* the code), True, 4326.0, and a dict.
CrsValues ==
    {PyNone}
        \cup [kind : {"int", "str"}, value : {4326, 3857}]
        \cup {[kind |-> "bool", value |-> 1],
              [kind |-> "float", value |-> 4326],
              [kind |-> "dict", value |-> 0]}

\* isinstance(value, (int, str)): bool is a subclass of int.
IsIntOrStr(value) == value.kind \in {"int", "bool", "str"}

\* First arguments of loads_geojson: a mapping with or without a "crs" key,
\* or a value that is not a Mapping (123).
GeoJSONValues ==
    {[kind |-> "mapping", has_crs |-> FALSE, crs |-> PyNone]}
        \cup [kind : {"mapping"}, has_crs : {TRUE}, crs : CrsValues]
        \cup {[kind |-> "int", has_crs |-> FALSE, crs |-> PyNone]}

\* mapping.get("crs")
MappingGetCrs(mapping) == IF mapping.has_crs THEN mapping.crs ELSE PyNone

\* What _geodist_rs.loads_geojson is: present and returning a handle, absent,
\* or present and raising.
KernelStates == {"available", "missing", "ValueError", "TypeError", "RuntimeError"}

IoReturned(crs) == [status |-> "ok", error |-> "", crs |-> crs]
IoRaised(error) == [status |-> "raise", error |-> error, crs |-> PyNone]

\* _validate_crs(crs)
ValidateCrs(crs) ==
    IF crs = PyNone \/ IsIntOrStr(crs)
    THEN IoReturned(crs)
    ELSE IoRaised("CRSValidationError")

\* _validate_geojson(mapping)
ValidateGeojson(mapping) ==
    IF mapping.kind # "mapping"
    THEN IoRaised("InvalidGeometryError")
    ELSE IoReturned(PyNone)

\* _resolve_crs(crs, fallback=fallback)
ResolveCrs_fallbackFirst(crs, fallback) ==
    IF fallback # PyNone /\ IsIntOrStr(fallback)
    THEN ValidateCrs(fallback)
    ELSE ValidateCrs(crs)

ResolveCrs(crs, fallback) ==
    IF crs # PyNone
    THEN ValidateCrs(crs)
    ELSE IF fallback # PyNone /\ IsIntOrStr(fallback)
    THEN ValidateCrs(fallback)
    ELSE ValidateCrs(crs)

\* _require_kernel("loads_geojson")
RequireKernel ==
    IF kernel = "missing" THEN IoRaised("KernelUnavailableError") ELSE IoReturned(PyNone)

\* _call_kernel(kernel, mapping, action="GeoJSON parsing", crs=crs)
CallKernel(crs) ==
    IF kernel = "ValueError" THEN IoRaised("InvalidGeometryError")
    ELSE IF kernel = "TypeError" THEN IoRaised("InvalidGeometryError")
    ELSE IF kernel = "RuntimeError" THEN IoRaised("KernelExecutionError")
    ELSE IoReturned(crs)

\* Geometry._from_handle(handle, crs=crs): the Geometry keeps the crs.
GeometryFromHandle(crs) == IoReturned(crs)

\* loads_geojson(mapping, crs=crs): the outcome and the kernel events it caused.
LoadsGeojson(mapping, crs) ==
    LET validated == ValidateGeojson(mapping)
        resolved == ResolveCrs(crs, MappingGetCrs(mapping))
        required == RequireKernel
        handle == CallKernel(resolved.crs)
    IN  IF validated.status = "raise" THEN [outcome |-> validated, log |-> <<>>]
        ELSE IF resolved.status = "raise" THEN [outcome |-> resolved, log |-> <<>>]
        ELSE IF required.status = "raise"
        THEN [outcome |-> required, log |-> << <<"lookup", PyNone>> >>]
        ELSE IF handle.status = "raise"
        THEN [outcome |-> handle,
              log |-> << <<"lookup", PyNone>>, <<"call", resolved.crs>> >>]
        ELSE [outcome |-> GeometryFromHandle(resolved.crs),
              log |-> << <<"lookup", PyNone>>, <<"call", resolved.crs>> >>]

InitIo ==
    /\ geojson \in GeoJSONValues
    /\ crs_arg \in CrsValues
    /\ kernel \in KernelStates
    /\ loaded = NotLoaded
    /\ kernel_log = <<>>
    /\ HausdorffIdle
    /\ VectorizedIdle
    /\ GeometryIdle
    /\ GeodesicIdle
    /\ PolylineIdle
    /\ ChamferIdle
    /\ BumpIdle

CallLoadsGeojson ==
    /\ loaded = NotLoaded
    /\ loaded' = LoadsGeojson(geojson, crs_arg).outcome
    /\ kernel_log' = LoadsGeojson(geojson, crs_arg).log
    /\ UNCHANGED <<geojson, crs_arg, kernel>>
    /\ UNCHANGED <<hvars, vvars, gvars, dvars, pvars, cvars, bvars>>

NextIo == CallLoadsGeojson

SpecIo == InitIo /\ [][NextIo]_vars

-----------------------------------------------------------------------------
(* Properties of loads_geojson (specification SpecIo) *)

\* The CRS the call has to use: the explicit argument unless it is None, else
\* the mapping's "crs" member when that is an int or a str, else None.
ExpectedCrs ==
    IF crs_arg.kind # "None" THEN crs_arg
    ELSE IF geojson.has_crs /\ geojson.crs.kind \in {"int", "bool", "str"} THEN geojson.crs
    ELSE PyNone

\* C29: on a mapping, loads_geojson uses the explicit crs when it is not None,
\* otherwise the mapping's "crs" member when that is an int or str, otherwise
\* None; that value is passed to the kernel and stored on the returned
\* Geometry; and an explicit crs that is neither None, an int nor a str raises
\* CRSValidationError before the kernel is looked up or called.
C29_GeojsonCrsResolution ==
    (loaded # NotLoaded /\ geojson.kind = "mapping") =>
        /\ crs_arg.kind \notin {"None", "int", "bool", "str"} =>
              /\ loaded.status = "raise"
              /\ loaded.error = "CRSValidationError"
              /\ kernel_log = <<>>
        /\ crs_arg.kind \in {"None", "int", "bool", "str"} =>
              /\ loaded.error # "CRSValidationError"
              /\ kernel = "available" <=> loaded.status = "ok"
              /\ \A k \in 1..Len(kernel_log) :
                    kernel_log[k][1] = "call" => kernel_log[k][2] = ExpectedCrs
              /\ loaded.status = "ok" =>
                    /\ loaded.crs = ExpectedCrs
                    /\ kernel_log = << <<"lookup", PyNone>>, <<"call", ExpectedCrs>> >>

\* A call without an explicit crs on a mapping whose "crs" member is a str:
\* the kernel received that str and the Geometry carries it.
C29_Witness ==
    /\ loaded.status = "ok"
    /\ geojson.kind = "mapping" /\ geojson.has_crs /\ geojson.crs.kind = "str"
    /\ crs_arg = PyNone
    /\ loaded.crs = geojson.crs
    /\ Len(kernel_log) = 2 /\ kernel_log[2] = <<"call", geojson.crs>>

-----------------------------------------------------------------------------
(* .github/scripts/bump_version.py: main.  A string is the sequence of its  *)
(* characters.  A manifest is the sequence of its lines; a line             *)
(* `key = "value"` is a record of its key, its value and whether it is      *)
(* indented, which is all the pattern (?m)^version = "(.*?)" looks at.      *)

MaxLines == 2       \* most lines of a manifest

\* Version strings callers pass: 1.2.3, 10.0.1, 1.2, v1.2.3, 1.2.3-rc, 1..3
\* and the empty string.
VersionArguments ==
    { <<"1", ".", "2", ".", "3">>,
      <<"1", "0", ".", "0", ".", "1">>,
      <<"1", ".", "2">>,
      <<"v", "1", ".", "2", ".", "3">>,
      <<"1", ".", "2", ".", "3", "-", "r", "c">>,
      <<"1", ".", ".", "3">>,
      <<>> }

IsDigit(char) == char \in {"0", "1", "2", "3", "4", "5", "6", "7", "8", "9"}

\* re.fullmatch(r"\d+\.\d+\.\d+", version).  part counts the number groups
\* entered so far (1..3) and in_digits tells whether the last character read
\* was a digit of the current group.
RECURSIVE FullMatchFrom(_, _, _)
FullMatchFrom(version, part, in_digits) ==
    IF version = <<>>
    THEN part = 3 /\ in_digits
    ELSE IF IsDigit(Head(version))
    THEN FullMatchFrom(Tail(version), part, TRUE)
    ELSE IF Head(version) = "." /\ in_digits /\ part < 3
    THEN FullMatchFrom(Tail(version), part + 1, FALSE)
    ELSE FALSE

FullMatch(version) == FullMatchFrom(version, 1, FALSE)

\* The lines a manifest is made of: a version line, an indented version line
\* (which ^ does not match) and a name line.
OldVersion == <<"0", ".", "1", ".", "0">>
ManifestLines ==
    { [indented |-> FALSE, key |-> "version", value |-> OldVersion],
      [indented |-> TRUE, key |-> "version", value |-> OldVersion],
      [indented |-> FALSE, key |-> "name", value |-> <<"l", "o", "x">>] }

ManifestTexts == SeqsUpTo(ManifestLines, MaxLines)

\* The pattern (?m)^version = "(.*?)" matches inside this line.
PatternMatches(line) == ~line.indented /\ line.key = "version"

\* re.subn(pattern, f'version = "{version}"', text, count=1): the text with its
\* first matching line rewritten, and the number of replacements made.
RECURSIVE Subn(_, _)
Subn(text, version) ==
    IF text = <<>>
    THEN [new_text |-> <<>>, count |-> 0]
    ELSE IF PatternMatches(Head(text))
    THEN [new_text |-> <<[Head(text) EXCEPT !.value = version]>> \o Tail(text),
          count |-> 1]
    ELSE LET rest == Subn(Tail(text), version)
         IN  [new_text |-> <<Head(text)>> \o rest.new_text, count |-> rest.count]

\* One turn of the loop of lines 28-34 on the manifest `path`: the files after
\* it, and whether main returns 1 from it.
UpdateTarget(files, path, version) ==
    LET replaced == Subn(files[path], version)
    IN  IF replaced.count # 1
        THEN [returned |-> TRUE, files |-> files]
        ELSE [returned |-> FALSE, files |-> [files EXCEPT ![path] = replaced.new_text]]

\* main(version): the return code and the manifests main leaves behind.
Main(version, files) ==
    IF ~FullMatch(version)
    THEN [code |-> 1, files |-> files]
    ELSE LET first == UpdateTarget(files, "cargo", version)
             second == UpdateTarget(first.files, "pyproject", version)
         IN  IF first.returned THEN [code |-> 1, files |-> first.files]
             ELSE IF second.returned THEN [code |-> 1, files |-> second.files]
             ELSE [code |-> 0, files |-> second.files]

InitBump ==
    /\ manifests \in [cargo : ManifestTexts, pyproject : ManifestTexts]
    /\ version_arg \in VersionArguments
    /\ bumped = NotBumped
    /\ HausdorffIdle
    /\ VectorizedIdle
    /\ GeometryIdle
    /\ GeodesicIdle
    /\ PolylineIdle
    /\ ChamferIdle
    /\ IoIdle

CallMain ==
    /\ bumped = NotBumped
    /\ bumped' = [code |-> Main(version_arg, manifests).code, before |-> manifests]
    /\ manifests' = Main(version_arg, manifests).files
    /\ UNCHANGED version_arg
    /\ UNCHANGED <<hvars, vvars, gvars, dvars, pvars, cvars, ivars>>

NextBump == CallMain

SpecBump == InitBump /\ [][NextBump]_vars

-----------------------------------------------------------------------------
(* Properties of bump_version.main (specification SpecBump) *)

\* The manifest has a version line with the given version.
CarriesVersion(text, version) ==
    \E i \in 1..Len(text) :
        ~text[i].indented /\ text[i].key = "version" /\ text[i].value = version

\* C30: main(version) updates the two manifests all-or-nothing: when it returns
\* 1 neither loxodrome-rs/Cargo.toml nor loxodrome/pyproject.toml has been
\* modified, and when it returns 0 both files carry the provided version.
C30_ManifestsUpdatedAllOrNothing ==
    bumped # NotBumped =>
        /\ bumped.code \in {0, 1}
        /\ bumped.code = 1 => manifests = bumped.before
        /\ bumped.code = 0 =>
              /\ CarriesVersion(manifests.cargo, version_arg)
              /\ CarriesVersion(manifests.pyproject, version_arg)
====
